---------------------------- MODULE Spec2Model ----------------------------
(***************************************************************************)
(* GPTCalculator: the /api/eval route of the server (classification,       *)
(* canonicalization, strict evaluation, English stripping, remote          *)
(* normalization) and the history kept by the client.                      *)
(*                                                                         *)
(* A JavaScript string is a sequence of one-character strings, so that the *)
(* regular expressions of the source are computed character by character.  *)
(***************************************************************************)
EXTENDS Integers, Sequences, FiniteSets, TLC

(***************************************************************************)
(* Characters and the regular-expression primitives the source relies on.  *)
(***************************************************************************)
Digit == {"0", "1", "2", "3", "4", "5", "6", "7", "8", "9"}

LowerSeq == <<"a", "b", "c", "d", "e", "f", "g", "h", "i", "j", "k", "l", "m",
              "n", "o", "p", "q", "r", "s", "t", "u", "v", "w", "x", "y", "z">>

UpperSeq == <<"A", "B", "C", "D", "E", "F", "G", "H", "I", "J", "K", "L", "M",
              "N", "O", "P", "Q", "R", "S", "T", "U", "V", "W", "X", "Y", "Z">>

Lower == {LowerSeq[i] : i \in DOMAIN LowerSeq}

Upper == {UpperSeq[i] : i \in DOMAIN UpperSeq}

Letter == Lower \cup Upper

\* \w of a regular expression
WordChar == Letter \cup Digit \cup {"_"}

\* \s of a regular expression (the inputs of the model hold no other blank)
Space == {" "}

\* String.prototype.toLowerCase on one character
ToLower(c) ==
    IF c \in Upper THEN LowerSeq[CHOOSE i \in DOMAIN UpperSeq : UpperSeq[i] = c]
    ELSE c

\* the flag i of a regular expression: ci = TRUE compares ignoring case
SameChar(a, b, ci) == IF ci THEN ToLower(a) = ToLower(b) ELSE a = b

\* F applied to the value of e: the local constant of the code that F's
\* parameter names
With(e, F(_)) == F(e)

\* the least element of a non-empty set of integers
Least(S) == CHOOSE x \in S : \A y \in S : x <= y

\* the length of the longest run of characters of set cls starting at s[i]
SpanIn(s, i, cls) ==
    With({j \in i..Len(s) : s[j] \notin cls}, LAMBDA stops :
        IF i > Len(s) THEN 0
        ELSE IF stops = {} THEN Len(s) - i + 1
        ELSE Least(stops) - i)

\* the pattern element \s+ inside a literal phrase (what\s+is)
WS == "\\s+"

\* s from position i on matches the literal pattern pat (characters, and WS
\* for \s+): the length matched, or -1
RECURSIVE MatchLen(_, _, _, _)
MatchLen(s, i, pat, ci) ==
    IF pat = <<>> THEN 0
    ELSE IF Head(pat) = WS
    THEN With(SpanIn(s, i, Space), LAMBDA n :
         With(MatchLen(s, i + n, Tail(pat), ci), LAMBDA r :
             IF n = 0 \/ r < 0 THEN -1 ELSE n + r))
    ELSE IF i > Len(s) \/ ~SameChar(s[i], Head(pat), ci) THEN -1
    ELSE With(MatchLen(s, i + 1, Tail(pat), ci), LAMBDA r :
             IF r < 0 THEN -1 ELSE 1 + r)

\* s[k] is a word character (FALSE outside the string)
IsWordAt(s, k) == k \in 1..Len(s) /\ s[k] \in WordChar

\* \b between s[i-1] and s[i]
Boundary(s, i) == IsWordAt(s, i - 1) # IsWordAt(s, i)

\* (a1|a2|...) tried at position i, in order, between \b and \b when wb:
\* the length of the first alternative that matches, or 0
AltMatch(s, i, alts, ci, wb) ==
    With([k \in DOMAIN alts |-> MatchLen(s, i, alts[k], ci)], LAMBDA len :
    With({k \in DOMAIN alts :
             /\ len[k] > 0
             /\ wb => (Boundary(s, i) /\ Boundary(s, i + len[k]))},
         LAMBDA hits : IF hits = {} THEN 0 ELSE len[Least(hits)]))

\* s.replace(/(a1|a2|...)/g, repl) from position i on
RECURSIVE ReplaceAlts(_, _, _, _, _, _)
ReplaceAlts(s, i, alts, ci, wb, repl) ==
    IF i > Len(s) THEN <<>>
    ELSE With(AltMatch(s, i, alts, ci, wb), LAMBDA n :
             IF n > 0 THEN repl \o ReplaceAlts(s, i + n, alts, ci, wb, repl)
             ELSE <<s[i]>> \o ReplaceAlts(s, i + 1, alts, ci, wb, repl))

\* /(a1|a2|...)/.test(s)
TestAlts(s, alts, ci, wb) ==
    \E i \in 1..Len(s) : AltMatch(s, i, alts, ci, wb) > 0

\* /[cls]/.test(s)
TestClass(s, cls) == \E i \in 1..Len(s) : s[i] \in cls

\* s.replace(/\s+/g, " ")
RECURSIVE CollapseSpaces(_, _)
CollapseSpaces(s, i) ==
    IF i > Len(s) THEN <<>>
    ELSE IF s[i] \in Space
    THEN <<" ">> \o CollapseSpaces(s, i + SpanIn(s, i, Space))
    ELSE <<s[i]>> \o CollapseSpaces(s, i + 1)

\* String.prototype.trim
Trim(s) ==
    With({j \in 1..Len(s) : s[j] \notin Space}, LAMBDA ink :
        IF ink = {} THEN <<>>
        ELSE SubSeq(s, Least(ink), CHOOSE j \in ink : \A k \in ink : k <= j))

(***************************************************************************)
(* Classifier: isLikelyMath / hasOpOrFunc / hasDigitOrConst, and the       *)
(* natural-language detector of the latest revision of the route.          *)
(***************************************************************************)
\* (sin|cos|tan|log10|ln|exp|sqrt|pi|deg|rad|e)
allowedWords ==
    << <<"s","i","n">>, <<"c","o","s">>, <<"t","a","n">>,
       <<"l","o","g","1","0">>, <<"l","n">>, <<"e","x","p">>,
       <<"s","q","r","t">>, <<"p","i">>, <<"d","e","g">>, <<"r","a","d">>,
       <<"e">> >>

\* [\s0-9+\-*/^().,eE]
MathChar == Space \cup Digit \cup {"+", "-", "*", "/", "^", "(", ")", ".", ",", "e", "E"}

isLikelyMath(s) ==
    With(ReplaceAlts(s, 1, allowedWords, TRUE, FALSE, <<>>), LAMBDA stripped :
        /\ Len(stripped) > 0
        /\ \A i \in 1..Len(stripped) : stripped[i] \in MathChar)

\* [+\-*/^()]
OpChar == {"+", "-", "*", "/", "^", "(", ")"}

\* \b(sin|cos|tan|log10|ln|exp|sqrt)\b
funcWords ==
    << <<"s","i","n">>, <<"c","o","s">>, <<"t","a","n">>,
       <<"l","o","g","1","0">>, <<"l","n">>, <<"e","x","p">>,
       <<"s","q","r","t">> >>

hasOpOrFunc(s) ==
    With(TestClass(s, OpChar), LAMBDA hasOp :
    With(TestAlts(s, funcWords, TRUE, TRUE), LAMBDA hasFunc :
        hasOp \/ hasFunc))

\* \b(pi|e)\b
constWords == << <<"p","i">>, <<"e">> >>

hasDigitOrConst(s) ==
    With(TestClass(s, Digit), LAMBDA hasDigit :
    With(TestAlts(s, constWords, TRUE, TRUE), LAMBDA hasConst :
        hasDigit \/ hasConst))

\* the three-part gate of the "already math" and "stripped" paths
FullGate(s) == isLikelyMath(s) /\ hasOpOrFunc(s) /\ hasDigitOrConst(s)


\* \b(plus|minus|...|evaluate)\b
mathWords ==
    << <<"p","l","u","s">>, <<"m","i","n","u","s">>,
       <<"t","i","m","e","s">>, <<"d","i","v","i","d","e","d">>,
       <<"m","u","l","t","i","p","l","y">>,
       <<"s","u","b","t","r","a","c","t">>, <<"a","d","d">>,
       <<"s","q","u","a","r","e">>, <<"r","o","o","t">>,
       <<"s","i","n","e">>, <<"c","o","s","i","n","e">>,
       <<"t","a","n","g","e","n","t">>, <<"l","o","g">>,
       <<"l","o","g","a","r","i","t","h","m">>,
       <<"e","x","p","o","n","e","n","t","i","a","l">>,
       <<"p","o","w","e","r">>, <<"r","a","i","s","e","d">>,
       <<"t","o"," ","t","h","e">>, <<"o","f">>, <<"w","h","a","t">>,
       <<"i","s">>, <<"c","a","l","c","u","l","a","t","e">>,
       <<"c","o","m","p","u","t","e">>, <<"s","o","l","v","e">>,
       <<"e","v","a","l","u","a","t","e">> >>

\* \b(zero|one|...|million)\b
numberWords ==
    << <<"z","e","r","o">>, <<"o","n","e">>, <<"t","w","o">>,
       <<"t","h","r","e","e">>, <<"f","o","u","r">>, <<"f","i","v","e">>,
       <<"s","i","x">>, <<"s","e","v","e","n">>, <<"e","i","g","h","t">>,
       <<"n","i","n","e">>, <<"t","e","n">>, <<"e","l","e","v","e","n">>,
       <<"t","w","e","l","v","e">>, <<"t","h","i","r","t","e","e","n">>,
       <<"f","o","u","r","t","e","e","n">>,
       <<"f","i","f","t","e","e","n">>, <<"s","i","x","t","e","e","n">>,
       <<"s","e","v","e","n","t","e","e","n">>,
       <<"e","i","g","h","t","e","e","n">>,
       <<"n","i","n","e","t","e","e","n">>, <<"t","w","e","n","t","y">>,
       <<"t","h","i","r","t","y">>, <<"f","o","r","t","y">>,
       <<"f","i","f","t","y">>, <<"s","i","x","t","y">>,
       <<"s","e","v","e","n","t","y">>, <<"e","i","g","h","t","y">>,
       <<"n","i","n","e","t","y">>, <<"h","u","n","d","r","e","d">>,
       <<"t","h","o","u","s","a","n","d">>,
       <<"m","i","l","l","i","o","n">> >>

isNaturalLanguage(s) ==
    TestAlts(s, mathWords, TRUE, TRUE) \/ TestAlts(s, numberWords, TRUE, TRUE)

(***************************************************************************)
(* English Stripper.  tryStripEnglish is the one of the latest revision    *)
(* of the server; tryStripEnglishIx the one of server/index.js.            *)
(***************************************************************************)
\* \b(what\s+is|calculate|compute|please|solve|evaluate|the\s+answer\s+to)\b
stripPhrases ==
    << <<"w","h","a","t",WS,"i","s">>,
       <<"c","a","l","c","u","l","a","t","e">>,
       <<"c","o","m","p","u","t","e">>, <<"p","l","e","a","s","e">>,
       <<"s","o","l","v","e">>, <<"e","v","a","l","u","a","t","e">>,
       <<"t","h","e",WS,"a","n","s","w","e","r",WS,"t","o">> >>

tryStripEnglish(s) ==
    With(ReplaceAlts(s, 1, stripPhrases, TRUE, TRUE, <<" ">>), LAMBDA t :
        Trim(CollapseSpaces(t, 1)))

\* \b(what\s+is|calculate|compute|please|solve|evaluate)\b
stripLeadIns ==
    << <<"w","h","a","t",WS,"i","s">>,
       <<"c","a","l","c","u","l","a","t","e">>,
       <<"c","o","m","p","u","t","e">>, <<"p","l","e","a","s","e">>,
       <<"s","o","l","v","e">>, <<"e","v","a","l","u","a","t","e">> >>

\* new Set(["sin","cos","tan","log10","ln","exp","sqrt","pi","deg","rad","e"])
keep == {allowedWords[i] : i \in DOMAIN allowedWords}

\* [0-9a-z+\-*/^().,\s] with the flag i
PlainChar == Digit \cup Letter \cup Space \cup {"+", "-", "*", "/", "^", "(", ")", ".", ","}

\* s.replace(/\b([a-z]+)\b/gi, (m, w) => keep.has(w.toLowerCase()) ? m : " ")
RECURSIVE DropUnknownWords(_, _)
DropUnknownWords(s, i) ==
    IF i > Len(s) THEN <<>>
    ELSE With(SpanIn(s, i, Letter), LAMBDA n :
         With(SubSeq(s, i, i + n - 1), LAMBDA w :
             IF n > 0 /\ Boundary(s, i) /\ Boundary(s, i + n)
             THEN (IF [k \in 1..n |-> ToLower(w[k])] \in keep THEN w ELSE <<" ">>)
                  \o DropUnknownWords(s, i + n)
             ELSE <<s[i]>> \o DropUnknownWords(s, i + 1)))

tryStripEnglishIx(s) ==
    With([k \in 1..Len(s) |-> IF s[k] \in PlainChar THEN s[k] ELSE " "],
         LAMBDA t1 :
    With(ReplaceAlts(t1, 1, stripLeadIns, TRUE, TRUE, <<" ">>), LAMBDA t2 :
    With(DropUnknownWords(t2, 1), LAMBDA t3 :
        Trim(CollapseSpaces(t3, 1)))))

(***************************************************************************)
(* Canonicalizer: the string rewrites of evalStrict.                       *)
(***************************************************************************)
\* the word and one-character alternatives of ALLOWED:
\* pi|e|sin|cos|tan|log10|log|ln|exp|sqrt|\+|\-|\*|\/|\^|\(|\)|,|\s|deg|rad
allowedTokens ==
    << <<"p","i">>, <<"e">>, <<"s","i","n">>, <<"c","o","s">>,
       <<"t","a","n">>, <<"l","o","g","1","0">>, <<"l","o","g">>,
       <<"l","n">>, <<"e","x","p">>, <<"s","q","r","t">>, <<"+">>, <<"-">>,
       <<"*">>, <<"/">>, <<"^">>, <<"(">>, <<")">>, <<",">>, <<" ">>,
       <<"d","e","g">>, <<"r","a","d">> >>

\* the lengths [0-9]+(?:\.[0-9]+)? can match at s[i]
NumberLens(s, i) ==
    With(SpanIn(s, i, Digit), LAMBDA n :
    With(IF n > 0 /\ i + n <= Len(s) /\ s[i + n] = "."
         THEN SpanIn(s, i + n + 1, Digit) ELSE 0, LAMBDA m :
        (1..n) \cup {n + 1 + j : j \in 1..m}))

\* the lengths one repetition of ALLOWED's group can match at s[i]
AllowedLens(s, i) ==
    NumberLens(s, i) \cup
    ({MatchLen(s, i, allowedTokens[k], TRUE) : k \in DOMAIN allowedTokens} \ {-1})

\* s from position i on is a sequence of allowed tokens
RECURSIVE AllowedFrom(_, _)
AllowedFrom(s, i) ==
    \/ i > Len(s)
    \/ \E l \in AllowedLens(s, i) : AllowedFrom(s, i + l)

\* ALLOWED.test(expr)
ALLOWED(expr) == Len(expr) > 0 /\ AllowedFrom(expr, 1)

\* expr.replace(/\bPI\b/gi,"pi").replace(/\bE\b/g,"e")
\*     .replace(/\bRAD\b/gi,"rad").replace(/\bDEG\b/gi,"deg")
NormalizeCasing(expr) ==
    With(ReplaceAlts(expr, 1, << <<"p","i">> >>, TRUE, TRUE, <<"p","i">>),
         LAMBDA a :
    With(ReplaceAlts(a, 1, << <<"E">> >>, FALSE, TRUE, <<"e">>), LAMBDA b :
    With(ReplaceAlts(b, 1, << <<"r","a","d">> >>, TRUE, TRUE, <<"r","a","d">>),
         LAMBDA c :
        ReplaceAlts(c, 1, << <<"d","e","g">> >>, TRUE, TRUE, <<"d","e","g">>))))

\* the length of \d+(?:\.\d+)? at s[i], taken greedily, or 0
NumberLen(s, i) ==
    With(SpanIn(s, i, Digit), LAMBDA n :
    With(IF n > 0 /\ i + n <= Len(s) /\ s[i + n] = "."
         THEN SpanIn(s, i + n + 1, Digit) ELSE 0, LAMBDA m :
        IF m > 0 THEN n + 1 + m ELSE n))

\* s.replace(/(\d+(?:\.\d+)?)\s*unit\b/gi, pre + "$1" + post) from position i
RECURSIVE ReplaceUnitLiteral(_, _, _, _, _)
ReplaceUnitLiteral(s, i, unit, pre, post) ==
    IF i > Len(s) THEN <<>>
    ELSE With(NumberLen(s, i), LAMBDA n :
         With(i + n + SpanIn(s, i + n, Space), LAMBDA u :
             IF /\ n > 0
                /\ MatchLen(s, u, unit, TRUE) = Len(unit)
                /\ Boundary(s, u + Len(unit))
             THEN pre \o SubSeq(s, i, i + n - 1) \o post
                  \o ReplaceUnitLiteral(s, u + Len(unit), unit, pre, post)
             ELSE <<s[i]>> \o ReplaceUnitLiteral(s, i + 1, unit, pre, post)))

\* "30 deg" -> "(30 * pi / 180)", then "1.2 rad" -> "(1.2)"
ExplicitUnits(s) ==
    ReplaceUnitLiteral(
        ReplaceUnitLiteral(s, 1, <<"d","e","g">>, <<"(">>,
                           <<" ","*"," ","p","i"," ","/"," ","1","8","0",")">>),
        1, <<"r","a","d">>, <<"(">>, <<")">>)

\* s.replace(/\bfn\s*\(([^)]+)\)/gi, "fn(($1) * pi / 180)") from position i
RECURSIVE WrapDegrees(_, _, _)
WrapDegrees(s, i, fn) ==
    IF i > Len(s) THEN <<>>
    ELSE With(i + Len(fn) + SpanIn(s, i + Len(fn), Space), LAMBDA open :
         With(SpanIn(s, open + 1, {s[k] : k \in 1..Len(s)} \ {")"}), LAMBDA m :
             IF /\ Boundary(s, i)
                /\ MatchLen(s, i, fn, TRUE) = Len(fn)
                /\ open <= Len(s) /\ s[open] = "("
                /\ m > 0
                /\ open + m + 1 <= Len(s)
             THEN fn \o <<"(","(">> \o SubSeq(s, open + 1, open + m)
                  \o <<")"," ","*"," ","p","i"," ","/"," ","1","8","0",")">>
                  \o WrapDegrees(s, open + m + 2, fn)
             ELSE <<s[i]>> \o WrapDegrees(s, i + 1, fn)))

\* the three replaces of the DEG branch of evalStrict
DegreeMode(s) ==
    WrapDegrees(WrapDegrees(WrapDegrees(s, 1, <<"s","i","n">>), 1, <<"c","o","s">>),
                1, <<"t","a","n">>)

\* /deg\b/i.test(arg)
HasDegUnit(arg) ==
    \E i \in 1..Len(arg) : /\ MatchLen(arg, i, <<"d","e","g">>, TRUE) = 3
                           /\ Boundary(arg, i + 3)

\* s.replace(/(sin|cos|tan)\(([^()]+)\)/g, ...) from position i; ci is the
\* flag i (set in server/index.js, not set in the client)
RECURSIVE transformForDegreesFrom(_, _, _)
transformForDegreesFrom(s, i, ci) ==
    IF i > Len(s) THEN <<>>
    ELSE With(AltMatch(s, i, << <<"s","i","n">>, <<"c","o","s">>,
                                <<"t","a","n">> >>, ci, FALSE), LAMBDA f :
         With(SpanIn(s, i + f + 1, {s[k] : k \in 1..Len(s)} \ {"(", ")"}),
              LAMBDA m :
             IF /\ f > 0
                /\ i + f <= Len(s) /\ s[i + f] = "("
                /\ m > 0
                /\ i + f + m + 1 <= Len(s) /\ s[i + f + m + 1] = ")"
             THEN (IF HasDegUnit(SubSeq(s, i + f + 1, i + f + m))
                   THEN SubSeq(s, i, i + f + m + 1)
                   ELSE SubSeq(s, i, i + f + m) \o <<" ","d","e","g",")">>)
                  \o transformForDegreesFrom(s, i + f + m + 2, ci)
             ELSE <<s[i]>> \o transformForDegreesFrom(s, i + 1, ci)))

transformForDegrees(s) == transformForDegreesFrom(s, 1, TRUE)

\* q.replace(/\bln\(/g, "log(") from position i; ci is the flag i (set in
\* server/index.js, not set in the client)
RECURSIVE LnToLog(_, _, _)
LnToLog(q, i, ci) ==
    IF i > Len(q) THEN <<>>
    ELSE IF Boundary(q, i) /\ MatchLen(q, i, <<"l","n","(">>, ci) = 3
    THEN <<"l","o","g","(">> \o LnToLog(q, i + 3, ci)
    ELSE <<q[i]>> \o LnToLog(q, i + 1, ci)

(***************************************************************************)
(* The numeric engine (mathjs, created with number: "number").  A number   *)
(* is (n/d) * u, where u names an irrational factor: <<>> for 1, <<"pi">>, *)
(* <<"e">>, the name of a function value the model does not compute        *)
(* (<<"sin", "30", "/", "1">> for sin(30)), or a product of these written  *)
(* one after the other.  f tells finite from                               *)
(* Infinity, -Infinity and NaN; noisy marks a double that differs from the *)
(* exact value in its last bits (sin(pi/6) = 0.49999999999999994); rounded *)
(* marks a value cut to 14 decimals.                                       *)
(***************************************************************************)
RECURSIVE Gcd(_, _)
Gcd(a, b) == IF b = 0 THEN a ELSE Gcd(b, a % b)

Abs(x) == IF x < 0 THEN -x ELSE x

Num(n, d, u, noisy) ==
    With(Gcd(Abs(n), Abs(d)), LAMBDA g :
    With(IF d < 0 THEN -1 ELSE 1, LAMBDA sn :
        [k |-> "num", f |-> "fin", n |-> sn * (n \div g), d |-> sn * (d \div g),
         u |-> IF n = 0 THEN <<>> ELSE u, noisy |-> noisy, rounded |-> FALSE]))

NonFinite(f) ==
    [k |-> "num", f |-> f, n |-> 0, d |-> 1, u |-> <<>>, noisy |-> FALSE,
     rounded |-> FALSE]

Rat(n, d) == Num(n, d, <<>>, FALSE)

\* a function of the math namespace, as a value
Fn(name) == [k |-> "fn", name |-> name]

\* new Unit(value, name)
UnitValue(val, unit) == [k |-> "unit", val |-> val, unit |-> unit]

Complex == [k |-> "complex"]

Undefined == [k |-> "undefined"]

\* an exception thrown by math.parse or by evaluate
Throw(msg) == [k |-> "throw", msg |-> msg]

\* an expression outside what this model of the engine computes
Unmodelled == [k |-> "unmodelled"]

IsFinite(v) == v.k = "num" /\ v.f = "fin"

IsRational(v) == IsFinite(v) /\ v.u = <<>>

Failed(v) == v.k \in {"throw", "unmodelled"}

Neg(a) ==
    IF a.k = "unit" /\ IsFinite(a.val)
    THEN UnitValue(Num(-a.val.n, a.val.d, a.val.u, a.val.noisy), a.unit)
    ELSE IF a.k # "num" THEN Unmodelled
    ELSE IF a.f = "inf" THEN NonFinite("ninf")
    ELSE IF a.f = "ninf" THEN NonFinite("inf")
    ELSE IF a.f = "nan" THEN a
    ELSE Num(-a.n, a.d, a.u, a.noisy)

Mul(a, b) ==
    IF a.k = "num" /\ b.k = "unit" /\ IsFinite(a) /\ IsRational(b.val)
    THEN UnitValue(Num(a.n * b.val.n, a.d * b.val.d, a.u, a.noisy), b.unit)
    ELSE IF a.k = "unit" /\ b.k = "num" /\ IsFinite(b) /\ IsRational(a.val)
    THEN UnitValue(Num(a.val.n * b.n, a.val.d * b.d, b.u, b.noisy), a.unit)
    \* the product of two units is a unit of another dimension
    ELSE IF a.k = "unit" /\ b.k = "unit" /\ IsRational(a.val) /\ IsRational(b.val)
    THEN UnitValue(Num(a.val.n * b.val.n, a.val.d * b.val.d, <<>>, FALSE),
                   a.unit \o <<" ">> \o b.unit)
    ELSE IF ~(IsFinite(a) /\ IsFinite(b)) THEN Unmodelled
    ELSE Num(a.n * b.n, a.d * b.d, a.u \o b.u, a.noisy \/ b.noisy)

Div(a, b) ==
    IF a.k = "unit" /\ b.k = "num" /\ IsRational(b) /\ b.n # 0 /\ IsFinite(a.val)
    THEN UnitValue(Num(a.val.n * b.d, a.val.d * b.n, a.val.u, a.val.noisy), a.unit)
    ELSE IF ~(IsFinite(a) /\ IsFinite(b)) THEN Unmodelled
    ELSE IF b.n = 0
    THEN (IF a.n > 0 THEN NonFinite("inf")
          ELSE IF a.n < 0 THEN NonFinite("ninf") ELSE NonFinite("nan"))
    ELSE IF b.u = <<>> THEN Num(a.n * b.d, a.d * b.n, a.u, a.noisy \/ b.noisy)
    ELSE IF a.u = b.u THEN Num(a.n * b.d, a.d * b.n, <<>>, a.noisy \/ b.noisy)
    ELSE Unmodelled

Add(a, b) ==
    IF (a.k = "unit" /\ b.k = "num") \/ (a.k = "num" /\ b.k = "unit")
    THEN Throw("Unexpected type of argument")
    ELSE IF ~(IsFinite(a) /\ IsFinite(b)) THEN Unmodelled
    ELSE IF a.n = 0 THEN b
    ELSE IF b.n = 0 THEN a
    ELSE IF a.u # b.u THEN Unmodelled
    ELSE Num(a.n * b.d + b.n * a.d, a.d * b.d, a.u, a.noisy \/ b.noisy)

RECURSIVE IntPow(_, _)
IntPow(b, x) == IF x = 0 THEN 1 ELSE b * IntPow(b, x - 1)

\* the exponents k for which 10^k is a double and 10^k * 1e14 is not
\* (Number.MAX_VALUE is about 1.797e308)
HugeExponents == {ToString(k) : k \in 295..308}

\* v is a power of ten of such an exponent, or a multiple of it
Huge(v) ==
    /\ IsFinite(v) /\ Len(v.u) = 2 /\ v.u[1] = "1e" /\ v.u[2] \in HugeExponents
    /\ Abs(v.n) >= v.d

Pow(a, b) ==
    IF ~(IsRational(a) /\ IsRational(b) /\ b.d = 1) THEN Unmodelled
    ELSE IF a.n = 10 /\ a.d = 1 /\ b.n > 9
    THEN (IF b.n > 308 THEN NonFinite("inf")
          ELSE Num(1, 1, <<"1e", ToString(b.n)>>, FALSE))
    ELSE IF b.n >= 0 THEN Num(IntPow(a.n, b.n), IntPow(a.d, b.n), <<>>, a.noisy)
    ELSE IF a.n = 0 THEN NonFinite("inf")
    ELSE Num(IntPow(a.d, -b.n), IntPow(a.n, -b.n), <<>>, a.noisy)

\* the name of a function value the model does not compute
Opaque(fn, x) == Num(1, 1, <<fn, ToString(x.n), "/", ToString(x.d)>> \o x.u, FALSE)

\* an angle in radians: a plain number, or a unit value in deg or rad
Radians(x) ==
    IF x.k = "unit" /\ x.unit = <<"d","e","g">> /\ IsRational(x.val)
    THEN Num(x.val.n, x.val.d * 180, <<"pi">>, FALSE)
    ELSE IF x.k = "unit" /\ x.unit = <<"r","a","d">> THEN x.val
    ELSE x

\* Math.sin, Math.cos, Math.tan on an angle in radians
PiTimes(r, n, d) == r.u = <<"pi">> /\ r.n = n /\ r.d = d

Trig(fn, a) ==
    With(Radians(a), LAMBDA r :
        IF r.k = "unit" THEN Throw("Unit in function is no angle")
        ELSE IF ~IsFinite(r) THEN Unmodelled
        ELSE IF r.n = 0 THEN (IF fn = "cos" THEN Rat(1, 1) ELSE Rat(0, 1))
        ELSE IF fn = "sin" /\ PiTimes(r, 1, 6) THEN Num(1, 2, <<>>, TRUE)
        ELSE IF fn = "sin" /\ PiTimes(r, 1, 2) THEN Rat(1, 1)
        ELSE IF fn = "cos" /\ PiTimes(r, 1, 3) THEN Num(1, 2, <<>>, TRUE)
        ELSE IF fn = "cos" /\ PiTimes(r, 1, 1) THEN Rat(-1, 1)
        ELSE IF fn = "tan" /\ PiTimes(r, 1, 4) THEN Num(1, 1, <<>>, TRUE)
        ELSE Opaque(fn, r))

\* the k with b^k = x, for 0 <= k <= 9, or -1
ExactLog(x, b) ==
    With({k \in 0..9 : IntPow(b, k) = x}, LAMBDA ks :
        IF b < 2 \/ ks = {} THEN -1 ELSE Least(ks))

\* math.log10(x)
Log10(x) ==
    IF ~IsFinite(x) THEN Unmodelled
    ELSE IF x.n = 0 THEN NonFinite("ninf")
    ELSE IF x.n < 0 THEN Complex
    ELSE IF IsRational(x) /\ x.d = 1 /\ ExactLog(x.n, 10) >= 0
    THEN Rat(ExactLog(x.n, 10), 1)
    ELSE Opaque("log10", x)

\* math.log(x): the natural logarithm
Ln(x) ==
    IF ~IsFinite(x) THEN Unmodelled
    ELSE IF x.n = 0 THEN NonFinite("ninf")
    ELSE IF x.n < 0 THEN Complex
    ELSE IF IsRational(x) /\ x.n = 1 /\ x.d = 1 THEN Rat(0, 1)
    ELSE IF x.u = <<"e">> /\ x.n = 1 /\ x.d = 1 THEN Rat(1, 1)
    ELSE Opaque("log", x)

\* math.log(x, base) = log(x) / log(base)
LogBase(x, b) ==
    IF IsRational(x) /\ IsRational(b) /\ x.d = 1 /\ b.d = 1 /\ x.n > 0
       /\ ExactLog(x.n, b.n) >= 0
    THEN Num(ExactLog(x.n, b.n), 1, <<>>, x.n = 1000 /\ b.n = 10)
    ELSE Div(Ln(x), Ln(b))

\* math.exp(x)
Exp(x) ==
    IF ~IsFinite(x) THEN Unmodelled
    ELSE IF x.n = 0 THEN Rat(1, 1)
    ELSE IF IsRational(x) /\ x.n = 1 /\ x.d = 1 THEN Num(1, 1, <<"e">>, FALSE)
    ELSE Opaque("exp", x)

\* the integer square root of a perfect square up to 144^2, or -1
ExactSqrt(x) ==
    With({r \in 0..144 : r * r = x}, LAMBDA rs :
        IF rs = {} THEN -1 ELSE Least(rs))

\* math.sqrt(x)
Sqrt(x) ==
    IF ~IsFinite(x) THEN Unmodelled
    ELSE IF x.n < 0 THEN Complex
    ELSE IF IsRational(x) /\ ExactSqrt(x.n) >= 0 /\ ExactSqrt(x.d) >= 0
    THEN Rat(ExactSqrt(x.n), ExactSqrt(x.d))
    ELSE Opaque("sqrt", x)

(***************************************************************************)
(* math.parse: the tokens, then the expression tree.  A node is            *)
(* [k, name, val, args]: k is "const" (val the number), "sym" (name),      *)
(* "call" (name, args), "op" (name the operator, args), "neg", "pos" or    *)
(* "paren".                                                                *)
(***************************************************************************)
Token(t, v) == [t |-> t, v |-> v]

RECURSIVE Tokenize(_, _)
Tokenize(s, i) ==
    IF i > Len(s) THEN <<>>
    ELSE IF s[i] \in Space THEN Tokenize(s, i + 1)
    ELSE IF s[i] \in Digit
    THEN With(NumberLen(s, i), LAMBDA n :
             <<Token("num", SubSeq(s, i, i + n - 1))>> \o Tokenize(s, i + n))
    ELSE IF s[i] \in Letter \cup {"_"}
    THEN With(SpanIn(s, i, WordChar), LAMBDA n :
             <<Token("sym", SubSeq(s, i, i + n - 1))>> \o Tokenize(s, i + n))
    ELSE IF s[i] \in OpChar \cup {","}
    THEN <<Token("op", <<s[i]>>)>> \o Tokenize(s, i + 1)
    ELSE <<Token("bad", <<s[i]>>)>> \o Tokenize(s, i + 1)

DigitValue(c) == CHOOSE v \in 0..9 : ToString(v) = c

\* the value of the digits ds as a decimal integer
RECURSIVE Decimal(_)
Decimal(ds) ==
    IF ds = <<>> THEN 0
    ELSE 10 * Decimal(SubSeq(ds, 1, Len(ds) - 1)) + DigitValue(ds[Len(ds)])

\* the value of the literal \d+(\.\d+)?
Literal(v) ==
    With({j \in 1..Len(v) : v[j] = "."}, LAMBDA dot :
        IF dot = {} THEN Rat(Decimal(v), 1)
        ELSE With(Least(dot), LAMBDA j :
                 Rat(Decimal(SubSeq(v, 1, j - 1) \o SubSeq(v, j + 1, Len(v))),
                     IntPow(10, Len(v) - j))))

Node(k, name, val, args) == [k |-> k, name |-> name, val |-> val, args |-> args]

\* the outcome of a parsing function: the node and the next position, or a
\* syntax error (ok = FALSE), or a construct the model does not parse (un)
Parsed(node, p) == [ok |-> TRUE, un |-> FALSE, node |-> node, p |-> p]

SyntaxError == [ok |-> FALSE, un |-> FALSE, node |-> Node("none", <<>>, Undefined, <<>>), p |-> 0]

NotParsed == [ok |-> FALSE, un |-> TRUE, node |-> Node("none", <<>>, Undefined, <<>>), p |-> 0]

TokenAt(ts, p) == IF p \in 1..Len(ts) THEN ts[p] ELSE Token("end", <<>>)

IsOp(ts, p, c) == TokenAt(ts, p) = Token("op", <<c>>)

\* rule2Node of mathjs: a constant, or a signed constant
Rule2Node(n) ==
    \/ n.k = "const"
    \/ n.k \in {"neg", "pos"} /\ n.args[1].k = "const"

RECURSIVE ParseAddSubtract(_, _)
RECURSIVE AddSubtractRest(_, _)
RECURSIVE ParseMultiplyDivide(_, _)
RECURSIVE MultiplyDivideRest(_, _)
RECURSIVE ParseImplicitMultiplication(_, _)
RECURSIVE ImplicitMultiplicationRest(_, _, _)
RECURSIVE ParseRule2(_, _)
RECURSIVE Rule2Rest(_, _)
RECURSIVE ParseUnary(_, _)
RECURSIVE ParsePow(_, _)
RECURSIVE ParseSymbol(_, _)
RECURSIVE ParseArgs(_, _, _)

\* the node of a binary operator once its right operand r is parsed
Binary(op, l, r) ==
    IF r.ok THEN Parsed(Node("op", op, Undefined, <<l.node, r.node>>), r.p)
    ELSE r

\* the node of a unary operator once its operand r is parsed
Unary(k, r) ==
    IF r.ok THEN Parsed(Node(k, <<>>, Undefined, <<r.node>>), r.p) ELSE r

ParseAddSubtract(ts, p) == AddSubtractRest(ts, ParseMultiplyDivide(ts, p))

AddSubtractRest(ts, l) ==
    IF l.ok /\ (IsOp(ts, l.p, "+") \/ IsOp(ts, l.p, "-"))
    THEN AddSubtractRest(
             ts, Binary(ts[l.p].v, l, ParseMultiplyDivide(ts, l.p + 1)))
    ELSE l

ParseMultiplyDivide(ts, p) ==
    MultiplyDivideRest(ts, ParseImplicitMultiplication(ts, p))

MultiplyDivideRest(ts, l) ==
    IF l.ok /\ (IsOp(ts, l.p, "*") \/ IsOp(ts, l.p, "/"))
    THEN MultiplyDivideRest(
             ts, Binary(ts[l.p].v, l, ParseImplicitMultiplication(ts, l.p + 1)))
    ELSE l

\* the operand parsed last by the implicit multiplication l
LastOperand(l) == IF l.node.k = "op" THEN l.node.args[2] ELSE l.node

ParseImplicitMultiplication(ts, p) ==
    ImplicitMultiplicationRest(ts, ParseRule2(ts, p), TRUE)

\* first: l is the first operand, not yet a product
ImplicitMultiplicationRest(ts, l, first) ==
    IF /\ l.ok
       /\ \/ TokenAt(ts, l.p).t = "sym"
          \/ /\ TokenAt(ts, l.p).t = "num"
             /\ (IF first THEN l.node ELSE LastOperand(l)).k
                    \notin {"const", "op", "neg", "pos"}
          \/ IsOp(ts, l.p, "(")
    THEN ImplicitMultiplicationRest(
             ts, Binary(<<"*">>, l, ParseRule2(ts, l.p)), FALSE)
    ELSE l

ParseRule2(ts, p) == Rule2Rest(ts, ParseUnary(ts, p))

\* "constant / constant symbol" divides before it multiplies: 1/2 deg
Rule2Rest(ts, l) ==
    IF /\ l.ok
       /\ IsOp(ts, l.p, "/") /\ Rule2Node(l.node)
       /\ TokenAt(ts, l.p + 1).t = "num"
       /\ (TokenAt(ts, l.p + 2).t = "sym" \/ IsOp(ts, l.p + 2, "("))
    THEN Rule2Rest(ts, Binary(<<"/">>, l, ParseUnary(ts, l.p + 1)))
    ELSE l

\* the power l ^ r when the token after l is "^"
PowRest(ts, l) ==
    IF l.ok /\ IsOp(ts, l.p, "^")
    THEN Binary(<<"^">>, l, ParseUnary(ts, l.p + 1))
    ELSE l

ParseUnary(ts, p) ==
    IF IsOp(ts, p, "-") \/ IsOp(ts, p, "+")
    THEN Unary(IF IsOp(ts, p, "-") THEN "neg" ELSE "pos", ParseUnary(ts, p + 1))
    ELSE ParsePow(ts, p)

ParsePow(ts, p) == PowRest(ts, ParseSymbol(ts, p))

\* the call of name once its arguments a are parsed
CallNode(name, a) ==
    IF a.ok THEN Parsed(Node("call", name, Undefined, a.node.args), a.p) ELSE a

\* the token that must close the expression e
Closing(ts, e, node) ==
    IF ~e.ok THEN e
    ELSE IF IsOp(ts, e.p, ")") THEN Parsed(node, e.p + 1)
    ELSE IF TokenAt(ts, e.p).t = "bad" THEN NotParsed
    ELSE SyntaxError

\* ( expression )
Parentheses(ts, e) ==
    Closing(ts, e, Node("paren", <<>>, Undefined, <<e.node>>))

\* parseSymbol, parseAccessors, parseNumber, parseParentheses, parseEnd
ParseSymbol(ts, p) ==
    IF TokenAt(ts, p).t = "sym"
    THEN IF IsOp(ts, p + 1, "(")
         THEN IF IsOp(ts, p + 2, ")")
              THEN Parsed(Node("call", TokenAt(ts, p).v, Undefined, <<>>), p + 3)
              ELSE CallNode(TokenAt(ts, p).v, ParseArgs(ts, p + 2, <<>>))
         ELSE Parsed(Node("sym", TokenAt(ts, p).v, Undefined, <<>>), p + 1)
    ELSE IF TokenAt(ts, p).t = "num"
    THEN Parsed(Node("const", <<>>, Literal(TokenAt(ts, p).v), <<>>), p + 1)
    ELSE IF IsOp(ts, p, "(")
    THEN Parentheses(ts, ParseAddSubtract(ts, p + 1))
    ELSE IF TokenAt(ts, p).t = "bad" THEN NotParsed
    ELSE SyntaxError

\* the arguments acc and e of a call, e followed by "," or ")"
ArgsRest(ts, e, acc) ==
    IF e.ok /\ IsOp(ts, e.p, ",")
    THEN ParseArgs(ts, e.p + 1, Append(acc, e.node))
    ELSE Closing(ts, e, Node("args", <<>>, Undefined, Append(acc, e.node)))

\* the arguments of a call, from the token after "(" or after ","
ParseArgs(ts, p, acc) == ArgsRest(ts, ParseAddSubtract(ts, p), acc)

\* the parse of the token sequence ts
ParseTokens(ts, r) ==
    IF ts = <<>> THEN Parsed(Node("const", <<>>, Undefined, <<>>), 1)
    ELSE IF \E j \in 1..Len(ts) : ts[j].t = "bad" THEN NotParsed
    ELSE IF r.ok /\ r.p <= Len(ts) THEN SyntaxError
    ELSE r

\* math.parse(s): [ok, un, node]
MathParse(s) == ParseTokens(Tokenize(s, 1), ParseAddSubtract(Tokenize(s, 1), 1))

(***************************************************************************)
(* node.evaluate() without a scope: symbols resolve in the math namespace. *)
(***************************************************************************)
\* the functions of the math namespace that the grammar names
MathFunctions ==
    { <<"s","i","n">>, <<"c","o","s">>, <<"t","a","n">>, <<"l","o","g">>,
      <<"l","o","g","1","0">>, <<"e","x","p">>, <<"s","q","r","t">> }

\* names that are neither in the math namespace nor units
UndefinedSymbols ==
    { <<"l","n">>, <<"s","i","n","e">>, <<"S","I","N">>, <<"f","i","v","e">>,
      <<"s","e","v","e","n">>, <<"p","l","u","s">>, <<"h","e","l","l","o">>,
      <<"w","h","a","t">>, <<"p","l","e","a","s","e">> }

ResolveSymbol(name) ==
    IF name \in MathFunctions THEN Fn(name)
    ELSE IF name \in {<<"p","i">>, <<"P","I">>} THEN Num(1, 1, <<"pi">>, FALSE)
    ELSE IF name \in {<<"e">>, <<"E">>} THEN Num(1, 1, <<"e">>, FALSE)
    ELSE IF name \in {<<"d","e","g">>, <<"r","a","d">>} THEN UnitValue(Rat(1, 1), name)
    ELSE IF name \in UndefinedSymbols THEN Throw("Undefined symbol")
    ELSE Unmodelled

\* a binary operator on two values
ApplyOperator(op, a, b) ==
    IF a.k = "throw" THEN a
    ELSE IF b.k = "throw" THEN b
    ELSE IF a.k = "fn" \/ b.k = "fn" THEN Throw("Unexpected type of argument")
    ELSE IF a.k \notin {"num", "unit"} \/ b.k \notin {"num", "unit"} THEN Unmodelled
    ELSE IF op = <<"+">> THEN Add(a, b)
    ELSE IF op = <<"-">> THEN Add(a, Neg(b))
    ELSE IF op = <<"*">> THEN Mul(a, b)
    ELSE IF op = <<"/">> THEN Div(a, b)
    ELSE Pow(a, b)

\* a function of the math namespace on evaluated arguments
ApplyFunction(name, args) ==
    LET n   == Len(args)
        bad == {j \in 1..n : args[j].k \notin {"num", "unit"}}
        a   == args[1]
    IN  IF \E j \in 1..n : args[j].k = "throw"
        THEN args[Least({j \in 1..n : args[j].k = "throw"})]
        ELSE IF name \notin MathFunctions
        THEN (IF ResolveSymbol(name).k = "unmodelled" THEN Unmodelled
              ELSE Throw("Undefined function"))
        ELSE IF n = 0 \/ n > 2 \/ (n = 2 /\ name # <<"l","o","g">>)
        THEN Throw("Wrong number of arguments")
        ELSE IF \E j \in bad : args[j].k = "fn" THEN Throw("Unexpected type of argument")
        ELSE IF bad # {} THEN Unmodelled
        ELSE IF name \in {<<"s","i","n">>, <<"c","o","s">>, <<"t","a","n">>}
        THEN Trig(IF name = <<"s","i","n">> THEN "sin"
                  ELSE IF name = <<"c","o","s">> THEN "cos" ELSE "tan", a)
        ELSE IF \E j \in 1..n : args[j].k = "unit" THEN Unmodelled
        ELSE IF name = <<"l","o","g","1","0">> THEN Log10(a)
        ELSE IF name = <<"l","o","g">> THEN (IF n = 1 THEN Ln(a) ELSE LogBase(a, args[2]))
        ELSE IF name = <<"e","x","p">> THEN Exp(a)
        ELSE Sqrt(a)

RECURSIVE Evaluate(_)
Evaluate(node) ==
    IF node.k = "const" THEN node.val
    ELSE IF node.k = "sym" THEN ResolveSymbol(node.name)
    ELSE IF node.k = "paren" THEN Evaluate(node.args[1])
    ELSE IF node.k = "pos" THEN Evaluate(node.args[1])
    ELSE IF node.k = "neg"
    THEN With(Evaluate(node.args[1]), LAMBDA a :
             IF a.k = "throw" THEN a
             ELSE IF a.k = "fn" THEN Throw("Unexpected type of argument")
             ELSE Neg(a))
    ELSE IF node.k = "op"
    THEN ApplyOperator(node.name, Evaluate(node.args[1]), Evaluate(node.args[2]))
    ELSE ApplyFunction(node.name, [j \in 1..Len(node.args) |-> Evaluate(node.args[j])])

\* math.evaluate(q): the value, or Throw, or Unmodelled
MathEvaluate(q) ==
    With(MathParse(q), LAMBDA r :
        IF r.un THEN Unmodelled
        ELSE IF ~r.ok THEN Throw("SyntaxError")
        ELSE Evaluate(r.node))

\* math.format(v): the display string of a value that is not a number
Format(v) == [k |-> "str", of |-> v]

(***************************************************************************)
(* Strict Evaluator.  evalStrict is the one of the latest revision of the  *)
(* server; evalStrictIx the one of server/index.js.  Either returns        *)
(* [ok |-> TRUE, value] or [ok |-> FALSE, error].                          *)
(***************************************************************************)
Returned(v) == [ok |-> TRUE, value |-> v, error |-> ""]

Thrown(msg) == [ok |-> FALSE, value |-> Undefined, error |-> msg]

\* ast.transform(...): a node the callback replaces is not descended into
RECURSIVE TransformLog(_)
TransformLog(node) ==
    IF node.k = "call" /\ node.name = <<"l","o","g">> /\ Len(node.args) = 1
    THEN Node("call", <<"l","o","g","1","0">>, Undefined, node.args)
    ELSE IF node.k = "call" /\ node.name = <<"l","n">>
    THEN Node("call", <<"l","o","g">>, Undefined, node.args)
    ELSE [node EXCEPT !.args = [j \in 1..Len(node.args) |-> TransformLog(node.args[j])]]

\* the transform of the client: only log with one argument is replaced
RECURSIVE TransformLog10(_)
TransformLog10(node) ==
    IF node.k = "call" /\ node.name = <<"l","o","g">> /\ Len(node.args) = 1
    THEN Node("call", <<"l","o","g","1","0">>, Undefined, node.args)
    ELSE [node EXCEPT !.args = [j \in 1..Len(node.args) |->
                                   TransformLog10(node.args[j])]]

\* the power of p in d, for d > 0
RECURSIVE Multiplicity(_, _)
Multiplicity(d, p) == IF d % p = 0 THEN 1 + Multiplicity(d \div p, p) ELSE 0

\* d has no prime factor other than 2 and 5
RECURSIVE OnlyTwoFive(_)
OnlyTwoFive(d) ==
    IF d % 2 = 0 THEN OnlyTwoFive(d \div 2)
    ELSE IF d % 5 = 0 THEN OnlyTwoFive(d \div 5)
    ELSE d = 1

\* Math.round(v * 1e14) / 1e14
Round14(v) ==
    IF Huge(v) THEN NonFinite(IF v.n > 0 THEN "inf" ELSE "ninf")
    ELSE
    IF /\ v.u = <<>> /\ OnlyTwoFive(v.d)
       /\ Multiplicity(v.d, 2) <= 14 /\ Multiplicity(v.d, 5) <= 14
    THEN [v EXCEPT !.noisy = FALSE]
    ELSE [v EXCEPT !.noisy = FALSE, !.rounded = TRUE]

\* /^DEG$/i.test(angleMode)
DegSpellings == {"DEG", "DEg", "DeG", "Deg", "dEG", "dEg", "deG", "deg"}

\* the rewrites of evalStrict on an expr whose white space is removed first
CanonicalCompact(expr, angleMode) ==
    With(ExplicitUnits(NormalizeCasing(SelectSeq(expr, LAMBDA c : c \notin Space))),
         LAMBDA s1 :
        IF angleMode \in DegSpellings THEN DegreeMode(s1) ELSE s1)

\* the s of evalStrict when it reaches math.parse(s): expr after the
\* casing replaces, the unit replaces and, in DEG mode, the trig replaces
Canonical(expr, angleMode) ==
    With(ExplicitUnits(NormalizeCasing(expr)), LAMBDA s1 :
        IF angleMode \in DegSpellings THEN DegreeMode(s1) ELSE s1)

\* the v of evalStrict, for an expr that passes ALLOWED: the value of
\* transformed.evaluate(), or what math.parse or evaluate throws
StrictValue(expr, angleMode) ==
    With(MathParse(Canonical(expr, angleMode)), LAMBDA ast :
        IF ast.un THEN Unmodelled
        ELSE IF ~ast.ok THEN Throw("SyntaxError")
        ELSE Evaluate(TransformLog(ast.node)))

evalStrict(expr, angleMode) ==
    IF ~ALLOWED(expr) THEN Thrown("Expression contains disallowed tokens")
    ELSE
    With(StrictValue(expr, angleMode), LAMBDA v :
        IF v.k = "unmodelled" THEN Thrown("unmodelled")
        ELSE IF v.k = "num" /\ v.f = "fin" THEN Returned(Round14(v))
        \* a parse or evaluation error, "Function name without argument",
        \* "Non-finite result" and "Unsupported (non-real) result" are all
        \* caught by the catch of the same try
        ELSE Thrown("Invalid mathematical expression"))

evalStrictIx(expr, angleMode) ==
    With(IF angleMode = "DEG" THEN transformForDegrees(expr) ELSE expr,
         LAMBDA q1 :
    With(LnToLog(q1, 1, TRUE), LAMBDA q :
    With(MathEvaluate(q), LAMBDA v :
        IF v.k = "unmodelled" THEN Thrown("unmodelled")
        ELSE IF v.k = "throw" THEN Thrown(v.msg)
        ELSE IF v.k = "num" THEN Returned(v)
        ELSE Returned(Format(v)))))

-----------------------------------------------------------------------------
(***************************************************************************)
(* The POST /api/eval route.  The repository holds five revisions of the   *)
(* server; the deployed one is fixed when the server starts.  Two of them  *)
(* are in server/index.js, one after the other (index_a, index_b); the     *)
(* second declares no evalStrict, and its calls are those of the function  *)
(* the file declares (evalStrictIx).  A handler                            *)
(* runs without interruption up to an await of the text-completion         *)
(* service, and resumes when the service replies or fails.                 *)
(***************************************************************************)
Servers == {"part_002", "part_003", "index_a", "index_b", "part_001"}

Spell(str) ==
    CASE str = "2+2" -> <<"2", "+", "2">>
      [] str = "2+" -> <<"2", "+">>
      [] str = "1/0" -> <<"1", "/", "0">>
      [] str = "5" -> <<"5">>
      [] str = "12" -> <<"1", "2">>
      [] str = "5+7" -> <<"5", "+", "7">>
      [] str = " " -> <<" ">>
      [] str = "" -> <<>>
      [] str = "hello" -> <<"h", "e", "l", "l", "o">>
      [] str = "sine(30)" -> <<"s", "i", "n", "e", "(", "3", "0", ")">>
      [] str = "sin(30)" -> <<"s", "i", "n", "(", "3", "0", ")">>
      [] str = "log(100)" -> <<"l", "o", "g", "(", "1", "0", "0", ")">>
      [] str = "log(0)" -> <<"l", "o", "g", "(", "0", ")">>
      [] str = "log(8, 2)" -> <<"l", "o", "g", "(", "8", ",", " ", "2", ")">>
      [] str = " 2+2 " -> <<" ", "2", "+", "2", " ">>
      [] str = "what is 2+2" ->
             <<"w", "h", "a", "t", " ", "i", "s", " ", "2", "+", "2">>
      [] str = "please 2+" -> <<"p", "l", "e", "a", "s", "e", " ", "2", "+">>
      [] str = "2 * E" -> <<"2", " ", "*", " ", "E">>
      [] str = "1 + 2" -> <<"1", " ", "+", " ", "2">>
      [] str = "log(100) + 1" ->
            <<"l", "o", "g", "(", "1", "0", "0", ")", " ", "+", " ", "1">>
      [] str = "please 5" -> <<"p", "l", "e", "a", "s", "e", " ", "5">>
      [] str = "please 2+2" ->
             <<"p", "l", "e", "a", "s", "e", " ", "2", "+", "2">>
      [] str = "0/0" -> <<"0", "/", "0">>
      [] str = "1/3" -> <<"1", "/", "3">>
      [] str = "10/4" -> <<"1", "0", "/", "4">>
      [] str = "log10" -> <<"l", "o", "g", "1", "0">>
      [] str = "log" -> <<"l", "o", "g">>
      [] str = "ln" -> <<"l", "n">>
      [] str = "sin" -> <<"s", "i", "n">>
      [] str = "pi" -> <<"p", "i">>
      [] str = "E" -> <<"E">>
      [] str = "log(100, 10)" ->
             <<"l", "o", "g", "(", "1", "0", "0", ",", " ", "1", "0", ")">>
      [] str = "log(-1)" -> <<"l", "o", "g", "(", "-", "1", ")">>
      [] str = "log10(100)" ->
             <<"l", "o", "g", "1", "0", "(", "1", "0", "0", ")">>
      [] str = "ln(e)" -> <<"l", "n", "(", "e", ")">>
      [] str = "ln (e)" -> <<"l", "n", " ", "(", "e", ")">>
      [] str = "ln(1)" -> <<"l", "n", "(", "1", ")">>
      [] str = "ln(0)" -> <<"l", "n", "(", "0", ")">>
      [] str = "ln(2.5)" -> <<"l", "n", "(", "2", ".", "5", ")">>
      [] str = "sqrt(16)" -> <<"s", "q", "r", "t", "(", "1", "6", ")">>
      [] str = "sqrt(-4)" -> <<"s", "q", "r", "t", "(", "-", "4", ")">>
      [] str = "sin(90)" -> <<"s", "i", "n", "(", "9", "0", ")">>
      [] str = "sin(30 deg)" ->
             <<"s", "i", "n", "(", "3", "0", " ", "d", "e", "g", ")">>
      [] str = "SIN(30)" -> <<"S", "I", "N", "(", "3", "0", ")">>
      [] str = "cos(0)" -> <<"c", "o", "s", "(", "0", ")">>
      [] str = "deg" -> <<"d", "e", "g">>
      [] str = "sin(2 rad)" ->
             <<"s", "i", "n", "(", "2", " ", "r", "a", "d", ")">>
      [] str = "sin((0)+90)" ->
             <<"s", "i", "n", "(", "(", "0", ")", "+", "9", "0", ")">>
      [] str = "sin(sqrt(4))" ->
             <<"s", "i", "n", "(", "s", "q", "r", "t", "(", "4", ")", ")">>
      [] str = "10^300" -> <<"1", "0", "^", "3", "0", "0">>
      [] str = "five plus seven" ->
             <<"f", "i", "v", "e", " ", "p", "l", "u", "s", " ",
               "s", "e", "v", "e", "n">>

\* the values a JSON field, or a JavaScript local, can hold
Absent == [t |-> "absent", s |-> <<>>]
Null == [t |-> "null", s |-> <<>>]
Str(s) == [t |-> "string", s |-> s]
Number(s) == [t |-> "number", s |-> s]

\* request bodies: req.body.expression and req.body.angleMode
Expressions ==
    {Absent, Number(Spell("5"))} \cup
    {Str(Spell(x)) : x \in {"", " ", "2+2", " 2+2 ", "2+", "1/0", "5", "hello",
                            "sine(30)", "sin(30)", "log(100)", "log(0)",
                            "log(8, 2)", "log(100) + 1", "what is 2+2",
                            "please 2+",
                            "please 2+2", "please 5", "five plus seven"}}

AngleModes == {"", "RAD", "DEG"}

Bodies == [expression : Expressions, angleMode : AngleModes]

\* what the text-completion service can answer to one call: the call
\* fails, or it returns a content that is prose, prose with an expression
\* between backticks, one JSON object, or prose around one JSON object
RemoteExpressions ==
    {Spell(x) : x \in {"5", "5+7", "2+", "1/0", "five plus seven", " "}}

Content(kind, expression, result, error) ==
    [kind |-> kind, expression |-> expression, result |-> result,
     error |-> error]

ApiError == Content("throw", Absent, Absent, "")

Prose == Content("prose", Absent, Absent, "")

Replies ==
    {ApiError, Prose,
     Content("ticked", Str(Spell("5+7")), Absent, ""),
     Content("wrapped", Str(Spell("5+7")), Number(Spell("12")), ""),
     Content("object", Str(<<>>), Absent, ""),
     Content("object", Number(Spell("5")), Absent, ""),
     Content("object", Absent, Absent, ""),
     Content("object", Absent, Number(Spell("12")), ""),
     Content("object", Absent, Str(Spell("12")), ""),
     Content("object", Absent, Absent, "Invalid expression")}
    \cup {Content("object", Str(e), Absent, "") : e \in RemoteExpressions}

\* !normalized || typeof normalized !== "string"
Usable(v) == v.t = "string" /\ v.s # <<>>

\* JSON.parse(content) succeeds
ParsesAsJSON(reply) == reply.kind = "object"

\* angleMode || "RAD"
Mode(angleMode) == IF angleMode = "" THEN "RAD" ELSE angleMode

\* res.json writes a non-finite number as null
ToJSON(v) == IF v.k = "num" /\ v.f # "fin" THEN [k |-> "null"] ELSE v

NoValue == [k |-> "none"]

NoResponse == [status |-> 0, result |-> NoValue, error |-> "",
               normalized |-> Absent, raw |-> FALSE]

Success(result, normalized) ==
    [status |-> 200, result |-> ToJSON(result), error |-> "",
     normalized |-> normalized, raw |-> FALSE]

Failure(status, error, normalized) ==
    [status |-> status, result |-> NoValue, error |-> error,
     normalized |-> normalized, raw |-> FALSE]

\* one invocation of the strict evaluator: its argument, where the
\* argument came from, and what the invocation returned or threw
Invocation(arg, from, out) == [arg |-> arg, from |-> from, out |-> out]

\* the position after \s* from position i
SkipSpaces(s, i) == i + SpanIn(s, i, Space)

CharAt(s, i, c) == i <= Len(s) /\ s[i] = c

\* the position after \s*\d+(?:\.\d+)?\s* from position i, or 0
AfterNumber(s, i) ==
    With(SkipSpaces(s, i), LAMBDA p :
    With(NumberLen(s, p), LAMBDA n :
        IF n = 0 THEN 0 ELSE SkipSpaces(s, p + n)))

\* /^log\s*\(\s*\d+(?:\.\d+)?\s*\)$/i and, with nargs = 2,
\* /^log\s*\(\s*\d+(?:\.\d+)?\s*,\s*\d+(?:\.\d+)?\s*\)$/i
LogCall(s, nargs) ==
    /\ MatchLen(s, 1, <<"l", "o", "g">>, TRUE) = 3
    /\ With(SkipSpaces(s, 4), LAMBDA p1 :
        /\ CharAt(s, p1, "(")
        /\ With(AfterNumber(s, p1 + 1), LAMBDA p3 :
            /\ p3 > 0
            /\ IF nargs = 1 THEN p3 = Len(s) /\ CharAt(s, p3, ")")
               ELSE /\ CharAt(s, p3, ",")
                    /\ With(AfterNumber(s, p3 + 1), LAMBDA p5 :
                           p5 > 0 /\ p5 = Len(s) /\ CharAt(s, p5, ")"))))

-----------------------------------------------------------------------------
VARIABLES
    server,      \* the revision of the server that is running
    pc,          \* "idle", "await" (a call to the service is pending), "done"
    request,     \* req.body of the request being handled
    text,        \* the handler's local text (expression.trim())
    site,        \* the await the handler is suspended at
    calls,       \* calls made to the text-completion service for the request
    normalized,  \* the handler's local normalized
    evalCalls,   \* the invocations of the strict evaluator, in order
    stages,      \* the steps of the route the handler went through, in order
    response,    \* the response sent (status 0 before)
    \* the client
    client,      \* the revision of App that is running
    expr, result, error, history, angleMode, useAI,
    inflight,    \* the fetches of handleEquals awaiting their response, oldest first
    edits,       \* changes of the input field and of the two switches so far
    fetches,     \* fetches of handleEquals so far
    completed,   \* the entries of the successful evaluations, oldest first
    \* an evaluator called on its own
    given,       \* the arguments of the call: expr and angleMode
    via,         \* the evaluator that was called ("" before the call)
    outcome      \* what it returned or threw

serverVars == <<server, pc, request, text, site, calls, normalized,
                evalCalls, stages, response>>

clientVars == <<client, expr, result, error, history, angleMode, useAI,
                inflight, edits, fetches, completed>>

evalVars == <<given, via, outcome>>

vars == <<serverVars, clientVars, evalVars>>

NoBody == [expression |-> Absent, angleMode |-> ""]

Unset == [t |-> "unset", s |-> <<>>]

\* what a run of the handler comes to: the response it sends (call = FALSE),
\* or a call of openai.chat.completions.create whose reply it awaits at
\* where; st and ev are the steps and the evaluator invocations of the run
Send(st, ev, resp) ==
    [call |-> FALSE, st |-> st, ev |-> ev, resp |-> resp, where |-> ""]

Call(st, ev, where) ==
    [call |-> TRUE, st |-> st, ev |-> ev, resp |-> NoResponse, where |-> where]

\* the handler runs to the outcome o
Proceed(o) ==
    /\ pc' = IF o.call THEN "await" ELSE "done"
    /\ stages' = stages \o o.st
    /\ evalCalls' = evalCalls \o o.ev
    /\ response' = IF o.call THEN response ELSE o.resp
    /\ site' = IF o.call THEN o.where ELSE site
    /\ calls' = IF o.call THEN calls + 1 ELSE calls
    /\ UNCHANGED server

\* an evaluation of the normalized text whose failure is answered without
\* the normalized string
EvaluateNormalizedBare(n, out) ==
    Send(<<"EvaluateNormalized">>, <<Invocation(n.s, "remote", out)>>,
         IF out.ok THEN Success(out.value, n)
         ELSE Failure(400, out.error, Absent))

\* the evaluation of the normalized text that ends every revision with a
\* normalizer: res.json({ result, normalized }) or status 400 with the
\* evaluator's message and normalized
EvaluateNormalized(n, out) ==
    Send(<<"EvaluateNormalized">>, <<Invocation(n.s, "remote", out)>>,
         IF out.ok THEN Success(out.value, n)
         ELSE Failure(400, out.error, n))

\* part_002: the check of the body, then the call
PostEval_part_002(body) ==
    /\ server = "part_002" /\ pc = "idle"
    /\ request' = body
    /\ UNCHANGED <<text, normalized>>
    /\ Proceed(IF body.expression.t = "absent" \/ body.expression = Str(<<>>)
               THEN Send(<<>>, <<>>,
                         Failure(400, "Missing exp[ression", Absent))
               ELSE Call(<<"Remote">>, <<>>, "create"))

\* the value of obj.result, a number or a string written by the service
FromRemote(field) == [k |-> "remote", t |-> field.t, s |-> field.s]

AnswerRemote(reply, raw) ==
    IF reply.result.t \in {"number", "string"}
    THEN [Success(FromRemote(reply.result), Absent) EXCEPT !.raw = FALSE]
    \* obj.error || "Invalid result"
    ELSE [Failure(400, IF reply.error # "" THEN reply.error
                       ELSE "Invalid result", Absent) EXCEPT !.raw = raw]

Reply_part_002(reply) ==
    /\ server = "part_002" /\ pc = "await"
    /\ UNCHANGED <<request, text, normalized>>
    /\ Proceed(IF reply.kind = "throw"
               THEN Send(<<>>, <<>>, Failure(500, "Server error", Absent))
               \* text.match(/\{[\s\S]*\}/)
               ELSE IF reply.kind \notin {"object", "wrapped"}
               THEN Send(<<>>, <<>>,
                         Failure(502, "AI did not return JSON", Absent))
               ELSE Send(<<>>, <<>>, AnswerRemote(reply, FALSE)))

\* part_003
PostEval_part_003(body) ==
    /\ server = "part_003" /\ pc = "idle"
    /\ request' = body
    /\ UNCHANGED <<text, normalized>>
    /\ Proceed(IF body.expression.t # "string"
                  \/ Trim(body.expression.s) = <<>>
               THEN Send(<<>>, <<>>, Failure(400, "Missing expression", Absent))
               ELSE Call(<<"Remote">>, <<>>, "json_object"))

Reply_part_003(reply) ==
    /\ server = "part_003" /\ pc = "await"
    /\ UNCHANGED <<request, text, normalized>>
    /\ Proceed(IF reply.kind = "throw"
               THEN IF site = "json_object"
                    THEN Call(<<"Remote">>, <<>>, "plain")
                    ELSE Send(<<>>, <<>>, Failure(500, "Server error", Absent))
               ELSE IF ~ParsesAsJSON(reply)
               THEN Send(<<>>, <<>>,
                         [Failure(502, "Bad JSON from AI", Absent)
                              EXCEPT !.raw = TRUE])
               ELSE Send(<<>>, <<>>, AnswerRemote(reply, TRUE)))

\* the stripped path of server/index.js: sgate is its test, sout the
\* evaluation of the stripped text
StrippedPath(stripped, sgate, sout) ==
    IF sgate /\ sout.ok
    THEN Send(<<"ClassifyLocal", "StripEnglish", "EvaluateStripped">>,
              <<Invocation(stripped, "stripped", sout)>>,
              Success(sout.value, Str(stripped)))
    \* the catch of the stripped path falls through to the normalizer
    ELSE IF sgate
    THEN Call(<<"ClassifyLocal", "StripEnglish", "EvaluateStripped",
                "NormalizeRemote">>,
              <<Invocation(stripped, "stripped", sout)>>, "json_schema")
    ELSE Call(<<"ClassifyLocal", "StripEnglish", "NormalizeRemote">>, <<>>,
              "json_schema")

\* the fast path of server/index.js: the catch of the fast path answers 400
FastPath(t, out) ==
    Send(<<"ClassifyLocal", "EvaluateLocal">>, <<Invocation(t, "text", out)>>,
         IF out.ok THEN Success(out.value, Absent)
         ELSE Failure(400, out.error, Absent))

\* server/index.js, both revisions: the check of the body and the two
\* local paths.  gate is the test of the fast path on the text t, sgate the
\* test of the stripped text
LocalPaths(body, t, gate, stripped, sgate) ==
    IF body.expression.t # "string" \/ t = <<>>
    THEN Send(<<>>, <<>>, Failure(400, "Missing expression", Absent))
    ELSE IF gate THEN FastPath(t, evalStrictIx(t, Mode(body.angleMode)))
    ELSE StrippedPath(stripped, sgate,
                      evalStrictIx(stripped, Mode(body.angleMode)))

StripGate_a(stripped, t) == stripped # <<>> /\ isLikelyMath(stripped)

StripGate_b(stripped, t) ==
    stripped # <<>> /\ stripped # t /\ FullGate(stripped)

\* const text = expression.trim()
TextOf(body) ==
    IF body.expression.t = "string" THEN Trim(body.expression.s) ELSE <<>>

PostEval_index_a(body) ==
    /\ server = "index_a" /\ pc = "idle"
    /\ request' = body
    /\ text' = TextOf(body)
    /\ UNCHANGED normalized
    /\ Proceed(LocalPaths(body, TextOf(body), isLikelyMath(TextOf(body)),
                          tryStripEnglishIx(TextOf(body)),
                          StripGate_a(tryStripEnglishIx(TextOf(body)),
                                      TextOf(body))))

PostEval_index_b(body) ==
    /\ server = "index_b" /\ pc = "idle"
    /\ request' = body
    /\ text' = TextOf(body)
    /\ UNCHANGED normalized
    /\ Proceed(LocalPaths(body, TextOf(body), FullGate(TextOf(body)),
                          tryStripEnglishIx(TextOf(body)),
                          StripGate_b(tryStripEnglishIx(TextOf(body)),
                                      TextOf(body))))

\* raw.match(/"expression"\s*:\s*"([^"]+)"/) || raw.match(/`([^`]+)`/)
Extract(reply) ==
    IF reply.kind \in {"object", "wrapped"} /\ Usable(reply.expression)
    THEN reply.expression
    ELSE IF reply.kind = "ticked" THEN reply.expression
    ELSE Null

\* JSON.parse(content)?.expression
ExpressionOf(reply) ==
    IF reply.expression.t = "absent" THEN [t |-> "undefined", s |-> <<>>]
    ELSE reply.expression

\* normalizeWithAI of server/index.js resumed at where with the reply to
\* one of its three calls: the value it returns, or "retry" when it goes on
\* to its next call, or "throw" when the exception of the last call escapes
normalizeWithAIIx(where, reply) ==
    IF where \in {"json_schema", "json_object"}
    THEN IF ParsesAsJSON(reply) THEN ExpressionOf(reply)
         ELSE [t |-> "retry", s |-> <<>>]
    ELSE IF reply.kind = "throw" THEN [t |-> "throw", s |-> <<>>]
    ELSE Extract(reply)

\* the rest of the route of server/index.js once normalizeWithAI is at n
AfterNormalize(n, where, mode) ==
    IF n.t = "retry"
    THEN Call(<<"NormalizeRemote">>, <<>>,
              IF where = "json_schema" THEN "json_object" ELSE "plain")
    ELSE IF n.t = "throw"
    THEN Send(<<>>, <<>>, Failure(500, "Server error", Absent))
    ELSE IF ~Usable(n)
    THEN Send(<<>>, <<>>, Failure(400, "Normalization failed", Absent))
    ELSE EvaluateNormalized(n, evalStrictIx(n.s, mode))

\* the local normalized once normalizeWithAI is at n
Assigned(n) == IF n.t \in {"retry", "throw"} THEN normalized ELSE n

Reply_index(reply) ==
    /\ server \in {"index_a", "index_b"} /\ pc = "await"
    /\ UNCHANGED <<request, text>>
    /\ normalized' = Assigned(normalizeWithAIIx(site, reply))
    /\ Proceed(AfterNormalize(normalizeWithAIIx(site, reply), site,
                              Mode(request.angleMode)))

\* normalizeWithAI of the latest revision: one call, and null for a call
\* that fails, a content that does not parse, or an expression that is
\* missing, empty or not a string
normalizeWithAI(reply) ==
    IF ParsesAsJSON(reply) /\ Usable(reply.expression) THEN reply.expression
    ELSE Null

\* the "already math" path and the stripped path of the latest revision,
\* and its final call of the normalizer: gate and sgate are the tests of
\* the two paths, out and sout the evaluations of the text and of the
\* stripped text
GatedPaths(t, gate, out, stripped, sgate, sout) ==
    IF gate /\ out.ok
    THEN Send(<<"ClassifyLocal", "EvaluateLocal">>,
              <<Invocation(t, "text", out)>>, Success(out.value, Str(t)))
    ELSE IF sgate /\ sout.ok
    THEN Send(<<"ClassifyLocal">>
                  \o (IF gate THEN <<"EvaluateLocal">> ELSE <<>>)
                  \o <<"StripEnglish", "EvaluateStripped">>,
              (IF gate THEN <<Invocation(t, "text", out)>> ELSE <<>>)
                  \o <<Invocation(stripped, "stripped", sout)>>,
              Success(sout.value, Str(stripped)))
    ELSE Call(<<"ClassifyLocal">>
                  \o (IF gate THEN <<"EvaluateLocal">> ELSE <<>>)
                  \o <<"StripEnglish">>
                  \o (IF sgate THEN <<"EvaluateStripped">> ELSE <<>>)
                  \o <<"NormalizeRemote">>,
              (IF gate THEN <<Invocation(t, "text", out)>> ELSE <<>>)
                  \o (IF sgate THEN <<Invocation(stripped, "stripped", sout)>>
                      ELSE <<>>),
              "final")

\* "log(number)" and "log(number, base)" are handled directly
LogPath(t, out) ==
    Send(<<"EvaluateLocal">>, <<Invocation(t, "text", out)>>,
         IF out.ok THEN Success(out.value, Str(t))
         ELSE Failure(400, out.error, Absent))

\* the latest revision of the route up to its first await
Route(body, t, mode, stripped) ==
    IF body.expression.t # "string" \/ t = <<>>
    THEN Send(<<>>, <<>>, Failure(400, "Missing expression", Absent))
    ELSE IF LogCall(t, 1) \/ LogCall(t, 2) THEN LogPath(t, evalStrict(t, mode))
    ELSE IF isNaturalLanguage(t)
    THEN Call(<<"NormalizeRemote">>, <<>>, "natural")
    ELSE GatedPaths(t, FullGate(t), evalStrict(t, mode), stripped,
                    stripped # <<>> /\ stripped # t /\ FullGate(stripped),
                    evalStrict(stripped, mode))

PostEval_part_001(body) ==
    /\ server = "part_001" /\ pc = "idle"
    /\ request' = body
    /\ text' = TextOf(body)
    /\ UNCHANGED normalized
    /\ Proceed(Route(body, TextOf(body), Mode(body.angleMode),
                     tryStripEnglish(TextOf(body))))

\* the route of the latest revision once normalizeWithAI has returned n
AfterNormalizer(n, where, mode) ==
    IF ~Usable(n)
    THEN Send(<<>>, <<>>,
              Failure(400, IF where = "natural"
                           THEN "Could not parse natural language expression"
                           ELSE "Could not understand expression", Absent))
    ELSE EvaluateNormalized(n, evalStrict(n.s, mode))

Reply_part_001(reply) ==
    /\ server = "part_001" /\ pc = "await"
    /\ UNCHANGED <<request, text>>
    /\ normalized' = normalizeWithAI(reply)
    /\ Proceed(AfterNormalizer(normalizeWithAI(reply), site,
                               Mode(request.angleMode)))

\* the server is ready for the next request
NextRequest ==
    /\ pc = "done"
    /\ pc' = "idle"
    /\ request' = NoBody /\ text' = <<>> /\ site' = "" /\ calls' = 0
    /\ normalized' = Unset /\ evalCalls' = <<>> /\ stages' = <<>>
    /\ response' = NoResponse
    /\ UNCHANGED server

ServerInit ==
    /\ server \in Servers
    /\ pc = "idle"
    /\ request = NoBody /\ text = <<>> /\ site = "" /\ calls = 0
    /\ normalized = Unset /\ evalCalls = <<>> /\ stages = <<>>
    /\ response = NoResponse

-----------------------------------------------------------------------------
(***************************************************************************)
(* The client.  App.tsx is the plain component; part_000 holds the latest  *)
(* one, with the check for an unfinished function call.                    *)
(***************************************************************************)
Clients == {"App", "part_000"}

\* slice(0, 20)
HistoryMax == 20

\* the sessions explored: at most MaxEvals evaluations that succeed or are
\* in flight, MaxEdits changes of the input field and of the two switches,
\* and MaxFetches fetches
MaxEvals == 21
MaxEdits == 2
MaxFetches == 2

\* what the user types into the input field
Typed ==
    {Spell(x) : x \in {" 2+2 ", "2+", "5"}} \cup {<<"s", "i", "n", "(">>}

\* String(v) of a number, of null or of a string
String(v) == IF v.k = "str" THEN v ELSE [k |-> "str", of |-> v]

NoText == [t |-> "null", v |-> NoValue, msg |-> ""]
Shown(v) == [t |-> "string", v |-> v, msg |-> ""]
Message(msg) == [t |-> "string", v |-> NoValue, msg |-> msg]

\* safeEvalLocal of the client rev: the number, the display string of
\* another value, or an exception
safeEvalLocal(s, mode, rev) ==
    With(IF mode = "DEG" THEN transformForDegreesFrom(s, 1, FALSE) ELSE s,
         LAMBDA q1 :
    With(LnToLog(q1, 1, FALSE), LAMBDA q :
    With(MathParse(q), LAMBDA ast :
    With(IF ast.un THEN Unmodelled
         ELSE IF ~ast.ok THEN Throw("SyntaxError")
         ELSE IF rev = "App" THEN Evaluate(ast.node)
         ELSE Evaluate(TransformLog10(ast.node)), LAMBDA v :
        IF v.k = "unmodelled" THEN Thrown("unmodelled")
        ELSE IF v.k = "throw" THEN Thrown(v.msg)
        ELSE IF rev # "App" /\ v.k = "fn"
        THEN Thrown("Finish the function call, e.g., log10(100) or ln(2.5)")
        ELSE IF v.k = "num" THEN Returned(v)
        ELSE Returned(Format(v))))))

\* /\b(sin|cos|tan|log10|ln|exp|sqrt)\s*$/i.test(trimmed) ||
\* /\(\s*$/.test(trimmed)
looksIncomplete(trimmed) ==
    \/ \E k \in DOMAIN funcWords :
          With(Len(trimmed) - Len(funcWords[k]) + 1, LAMBDA i :
              /\ i >= 1
              /\ MatchLen(trimmed, i, funcWords[k], TRUE) = Len(funcWords[k])
              /\ Boundary(trimmed, i))
    \/ trimmed # <<>> /\ trimmed[Len(trimmed)] = "("

\* a history that takes its new entry at the tail
setHistoryTail(h, in, out) ==
    With(h \o <<[in |-> in, out |-> out]>>, LAMBDA all :
        SubSeq(all, 1, IF Len(all) < HistoryMax THEN Len(all) ELSE HistoryMax))

\* setHistory(h => [{ in: trimmed, out }, ...h].slice(0, 20))
setHistory(h, in, out) ==
    With(<<[in |-> in, out |-> out]>> \o h, LAMBDA all :
        SubSeq(all, 1, IF Len(all) < HistoryMax THEN Len(all) ELSE HistoryMax))


Unfinished == "Finish the function call, e.g., log10(100)"

\* the input field changes (onChange, or a key of the keypad)
setExpr(x) ==
    /\ edits < MaxEdits
    /\ expr' = x
    /\ edits' = edits + 1
    /\ UNCHANGED <<client, result, error, history, angleMode, useAI, inflight,
                   fetches, completed>>

\* a clear action that empties the history as well
clearAllHistory ==
    /\ expr' = <<>> /\ result' = NoText /\ error' = NoText /\ history' = <<>>
    /\ UNCHANGED <<client, angleMode, useAI, inflight, edits, fetches,
                   completed>>

\* setExpr(""); setResult(null); setError(null)
clearAll ==
    /\ expr' = <<>> /\ result' = NoText /\ error' = NoText
    /\ UNCHANGED <<client, history, angleMode, useAI, inflight, edits,
                   fetches, completed>>

setAngleMode ==
    /\ edits < MaxEdits /\ edits' = edits + 1
    /\ angleMode' = IF angleMode = "RAD" THEN "DEG" ELSE "RAD"
    /\ UNCHANGED <<client, expr, result, error, history, useAI, inflight,
                   fetches, completed>>

setUseAI ==
    /\ edits < MaxEdits /\ edits' = edits + 1
    /\ useAI' = ~useAI
    /\ UNCHANGED <<client, expr, result, error, history, angleMode, inflight,
                   fetches, completed>>

\* a handleEquals that sends the input to the server when the local
\* evaluation fails
EvaluatedFallback(trimmed, v) ==
    IF client = "part_000" /\ looksIncomplete(trimmed)
    THEN /\ error' = Message(Unfinished) /\ result' = NoText
         /\ UNCHANGED <<history, inflight, fetches, completed>>
    ELSE IF trimmed = <<>>
    THEN /\ error' = NoText /\ result' = NoText
         /\ UNCHANGED <<history, inflight, fetches, completed>>
    ELSE IF useAI \/ ~v.ok
    THEN /\ fetches < MaxFetches
         /\ fetches' = fetches + 1
         /\ error' = NoText /\ result' = NoText
         /\ inflight' = Append(inflight, [in |-> trimmed, mode |-> angleMode,
                                          n |-> fetches + 1])
         /\ UNCHANGED <<history, completed>>
    ELSE /\ error' = NoText /\ result' = Shown(String(v.value))
         /\ history' = setHistory(history, trimmed, String(v.value))
         /\ completed' = Append(completed,
                                [in |-> trimmed, out |-> String(v.value)])
         /\ UNCHANGED <<inflight, fetches>>

\* handleEquals on the input trimmed, up to its await, or to its end in
\* local-only mode, where v is what safeEvalLocal returns or throws; the
\* n-th call that awaits the server is in inflight with its trimmed, its
\* angleMode and n
Evaluated(trimmed, v) ==
    IF client = "part_000" /\ looksIncomplete(trimmed)
    THEN /\ error' = Message(Unfinished) /\ result' = NoText
         /\ UNCHANGED <<history, inflight, fetches, completed>>
    ELSE IF trimmed = <<>>
    THEN /\ error' = NoText /\ result' = NoText
         /\ UNCHANGED <<history, inflight, fetches, completed>>
    ELSE IF useAI
    THEN /\ fetches < MaxFetches
         /\ fetches' = fetches + 1
         /\ error' = NoText /\ result' = NoText
         /\ inflight' = Append(inflight, [in |-> trimmed, mode |-> angleMode,
                                          n |-> fetches + 1])
         /\ UNCHANGED <<history, completed>>
    ELSE IF v.ok
    THEN /\ error' = NoText /\ result' = Shown(String(v.value))
         /\ history' = setHistory(history, trimmed, String(v.value))
         /\ completed' = Append(completed,
                                [in |-> trimmed, out |-> String(v.value)])
         /\ UNCHANGED <<inflight, fetches>>
    ELSE /\ error' = Message(v.error) /\ result' = NoText
         /\ UNCHANGED <<history, inflight, fetches, completed>>

handleEquals ==
    /\ Len(completed) + Len(inflight) < MaxEvals
    /\ UNCHANGED <<client, expr, angleMode, useAI, edits>>
    /\ Evaluated(Trim(expr), safeEvalLocal(Trim(expr), angleMode, client))

\* the responses to a fetch whose expression the server's strict evaluator
\* takes to out
Responses(out) ==
    {[ok |-> FALSE, result |-> NoValue, error |-> "AI evaluation failed"]}
    \cup (IF out.ok
          THEN {[ok |-> TRUE, result |-> ToJSON(out.value), error |-> ""]}
          ELSE {[ok |-> FALSE, result |-> NoValue, error |-> out.error]})

\* what the server can answer to the fetch of f: the value of its strict
\* evaluator with status 200, or an error with another status
Answers(f) == Responses(evalStrict(f.in, f.mode))

\* handleEquals resumes with the response to its fetch
Respond(i, data) ==
    /\ inflight' = SubSeq(inflight, 1, i - 1)
                       \o SubSeq(inflight, i + 1, Len(inflight))
    /\ UNCHANGED <<client, expr, angleMode, useAI, edits, fetches>>
    /\ IF data.ok
       THEN /\ result' = Shown(String(data.result))
            /\ history' = setHistory(history, inflight[i].in,
                                     String(data.result))
            /\ completed' = Append(completed, [in |-> inflight[i].in,
                                               out |-> String(data.result)])
            /\ UNCHANGED error
       ELSE /\ error' = Message(data.error)
            /\ UNCHANGED <<result, history, completed>>

ClientInit ==
    /\ client \in Clients
    /\ expr = <<>> /\ result = NoText /\ error = NoText /\ history = <<>>
    /\ angleMode = "RAD" /\ useAI = FALSE /\ inflight = <<>>
    /\ edits = 0 /\ fetches = 0 /\ completed = <<>>

-----------------------------------------------------------------------------
\* no evaluator has been called on its own
NoArguments == [expr |-> <<>>, angleMode |-> ""]

NotCalled == given = NoArguments /\ via = "" /\ outcome = Thrown("")

Init == ServerInit /\ ClientInit /\ NotCalled

PostEval ==
    \E body \in Bodies :
        \/ PostEval_part_002(body)
        \/ PostEval_part_003(body)
        \/ PostEval_index_a(body)
        \/ PostEval_index_b(body)
        \/ PostEval_part_001(body)

Reply ==
    \E reply \in Replies :
        \/ Reply_part_002(reply)
        \/ Reply_part_003(reply)
        \/ Reply_index(reply)
        \/ Reply_part_001(reply)

Next ==
    \/ PostEval /\ UNCHANGED <<clientVars, evalVars>>
    \/ Reply /\ UNCHANGED <<clientVars, evalVars>>
    \/ NextRequest /\ UNCHANGED <<clientVars, evalVars>>

Spec == Init /\ [][Next]_vars

NextClient ==
    \/ (\E x \in Typed : setExpr(x)) /\ UNCHANGED <<serverVars, evalVars>>
    \/ clearAll /\ UNCHANGED <<serverVars, evalVars>>
    \/ setAngleMode /\ UNCHANGED <<serverVars, evalVars>>
    \/ setUseAI /\ UNCHANGED <<serverVars, evalVars>>
    \/ handleEquals /\ UNCHANGED <<serverVars, evalVars>>
    \/ (\E i \in DOMAIN inflight :
            \E data \in Answers(inflight[i]) : Respond(i, data))
       /\ UNCHANGED <<serverVars, evalVars>>

(***************************************************************************)
(* The evaluators called on their own, each on the same arguments.         *)
(***************************************************************************)
Given ==
    {Spell(x) : x \in {"2+2", "5", "2+", "hello", "1/0", "0/0", "1/3", "10/4",
                       "log10", "log", "ln", "sin", "pi", "E", "2 * E", "1 + 2",
                       "log(100)", "log(0)", "log(-1)", "log(8, 2)",
                       "log(100, 10)", "log10(100)",
                       "ln(e)", "ln (e)", "ln(1)", "ln(0)", "ln(2.5)",
                       "sqrt(16)", "sqrt(-4)", "cos(0)", "10^300", "deg",
                       "sin(30)", "sin(90)", "sin(30 deg)", "sin(2 rad)",
                       "SIN(30)", "sin((0)+90)", "sin(sqrt(4))"}}

\* evalStrict(expr, angleMode) of the latest server
CallEvalStrict ==
    /\ via = "" /\ via' = "part_001"
    /\ outcome' = evalStrict(given.expr, given.angleMode)
    /\ UNCHANGED <<given, serverVars, clientVars>>

\* evalStrict(expr, angleMode) of server/index.js
CallEvalStrictIx ==
    /\ via = "" /\ via' = "index"
    /\ outcome' = evalStrictIx(given.expr, given.angleMode)
    /\ UNCHANGED <<given, serverVars, clientVars>>

\* safeEvalLocal(s) of the client rev, whose angleMode is given.angleMode
CallSafeEvalLocal(rev) ==
    /\ via = "" /\ via' = rev
    /\ outcome' = safeEvalLocal(given.expr, given.angleMode, rev)
    /\ UNCHANGED <<given, serverVars, clientVars>>

NextEval ==
    \/ CallEvalStrict
    \/ CallEvalStrictIx
    \/ \E rev \in Clients : CallSafeEvalLocal(rev)

InitEval ==
    /\ ServerInit /\ server = "part_001"
    /\ ClientInit /\ client = "part_000"
    /\ given \in [expr : Given, angleMode : {"RAD", "DEG"}]
    /\ via = "" /\ outcome = Thrown("")

SpecEval == InitEval /\ [][NextEval]_vars

\* the client runs against the latest revision of the server
InitClient == Init /\ server = "part_001"

SpecClient == InitClient /\ [][NextClient]_vars

\* no evaluation of the model leaves the values the model computes
Modelled ==
    /\ \A i \in DOMAIN evalCalls : evalCalls[i].out.error # "unmodelled"
    /\ error.msg # "unmodelled"
    /\ outcome.error # "unmodelled"

-----------------------------------------------------------------------------
(***************************************************************************)
(* Properties of the server, under Spec.                                   *)
(***************************************************************************)
Remote(stage) == stage \in {"NormalizeRemote", "Remote"}

\* C1: the result of every 200 response is a value the strict evaluator
\* returned for an expression during the request; what the text-completion
\* service wrote is never the result
ResultIsEvaluated ==
    response.status = 200 =>
        \E i \in DOMAIN evalCalls :
            /\ evalCalls[i].out.ok
            /\ response.result = ToJSON(evalCalls[i].out.value)

\* C2: when the strict evaluation of the text fails, the route goes on to
\* the StripEnglish step; no response is sent from the failed local
\* evaluation
LocalFailureFallsThrough ==
    \A i \in DOMAIN evalCalls :
        evalCalls[i].from = "text" /\ ~evalCalls[i].out.ok =>
            \E j \in DOMAIN stages : stages[j] = "StripEnglish"

\* C3: the steps of a request run in the order ClassifyLocal, StripEnglish,
\* remote: every call of the service comes after both local steps, and a
\* local evaluation that succeeds is never accompanied by a call
StagesInOrder ==
    /\ \A i \in DOMAIN stages :
           Remote(stages[i]) =>
               \E j \in 1..(i - 1) : \E k \in (j + 1)..(i - 1) :
                   stages[j] = "ClassifyLocal" /\ stages[k] = "StripEnglish"
    /\ \A i \in DOMAIN evalCalls :
           evalCalls[i].from \in {"text", "stripped"} /\ evalCalls[i].out.ok
               => calls = 0

\* C4: an expression of the normalizer with no operator and no function in
\* it is rejected: the evaluator is not applied to it and the response is
\* not a 200
BareNormalizedRejected ==
    Usable(normalized) /\ ~hasOpOrFunc(normalized.s) =>
        /\ response.status # 200
        /\ \A i \in DOMAIN evalCalls : evalCalls[i].from # "remote"

\* typeof expression !== "string" || !expression.trim()
MissingExpression(body) ==
    body.expression.t # "string" \/ Trim(body.expression.s) = <<>>

StatusesAndShapes ==
    pc = "done" =>
        /\ response.status \in {200, 400, 500}
        /\ response.status = 200 =>
               response.result # NoValue /\ response.error = ""
        /\ response.status # 200 =>
               response.result = NoValue /\ response.error # ""

\* C7: at most one call of the text-completion service is made for a
\* request
AtMostOneCall == calls <= 1

\* C8: when the normalizer has been called and yields no usable expression,
\* the request ends with a 400 and the evaluator is not applied to any text
\* of the service
UnusableIsNormalizationFailure ==
    /\ server \in {"index_a", "index_b", "part_001"}
    /\ pc = "done" /\ calls > 0 /\ ~Usable(normalized)
    => /\ response.status = 400
       /\ \A i \in DOMAIN evalCalls : evalCalls[i].from # "remote"

\* C9: when the normalizer returns a non-empty string, the strict evaluator
\* is applied to it and that evaluation is the last step: its value is
\* answered 200, its failure 400 with the evaluator's message and the
\* normalized string
NormalizedIsEvaluated ==
    Usable(normalized) =>
        /\ pc = "done" /\ evalCalls # <<>> /\ stages # <<>>
        /\ stages[Len(stages)] = "EvaluateNormalized"
        /\ evalCalls[Len(evalCalls)].from = "remote"
        /\ evalCalls[Len(evalCalls)].arg = normalized.s
        /\ evalCalls[Len(evalCalls)].out =
               (IF server = "part_001"
                THEN evalStrict(normalized.s, Mode(request.angleMode))
                ELSE evalStrictIx(normalized.s, Mode(request.angleMode)))
        /\ IF evalCalls[Len(evalCalls)].out.ok
           THEN /\ response.status = 200
                /\ response.result =
                       ToJSON(evalCalls[Len(evalCalls)].out.value)
           ELSE /\ response.status = 400
                /\ response.error = evalCalls[Len(evalCalls)].out.error
                /\ response.normalized = normalized

\* the evaluation of a normalized string has failed and has been answered
NormalizedFailed ==
    /\ Usable(normalized) /\ evalCalls # <<>>
    /\ ~evalCalls[Len(evalCalls)].out.ok
    /\ response.status = 400 /\ response.normalized = normalized

(***************************************************************************)
(* Properties of the client, under SpecClient.                             *)
(***************************************************************************)
Min(a, b) == IF a < b THEN a ELSE b

\* C10: the history has at most 20 entries, and after k successful
\* evaluations they are the min(k, 20) most recent ones, newest first
HistoryIsRecent ==
    /\ Len(history) <= HistoryMax
    /\ history = [i \in 1..Min(Len(completed), HistoryMax) |->
                      completed[Len(completed) - i + 1]]

\* more than 20 evaluations have succeeded, of two different inputs
HistoryEvicted ==
    /\ Len(completed) > HistoryMax
    /\ Len(history) = HistoryMax
    /\ history[1] # history[HistoryMax]

\* g is h with one entry put in front, cut to the 20 first entries
Prepended(h, g) ==
    /\ Len(g) = Min(Len(h) + 1, HistoryMax)
    /\ \A i \in 2..Len(g) : g[i] = h[i - 1]

\* C11: a step changes the history only by putting one entry in front of
\* it, the entry of the result the step displays; a step that displays no
\* result (an empty or unfinished input, a failed local evaluation, the
\* clear action, the start of a fetch) and a step that reports a new error
\* leave the history as it is
HistoryFrame ==
    [][/\ history' # history =>
              /\ Prepended(history, history')
              /\ result' = Shown(history'[1].out)
       /\ result' = NoText => history' = history
       /\ error' # error /\ error' # NoText => history' = history]_vars

\* an evaluation failed after another one had succeeded
HistoryKept ==
    /\ history # <<>>
    /\ result = NoText
    /\ error # NoText

\* the input of handleEquals is evaluated: it is neither empty nor, in
\* part_000, an unfinished function call
Evaluates(trimmed) ==
    /\ trimmed # <<>>
    /\ ~(client = "part_000" /\ looksIncomplete(trimmed))

\* C12: while the AI switch is off no step sends a request, and a
\* handleEquals whose local evaluation throws ends with the message of the
\* exception as the error, no result and no request
LocalOnly ==
    [][~useAI =>
          /\ fetches' = fetches /\ Len(inflight') <= Len(inflight)
          /\ calls' = calls
          /\ handleEquals /\ Evaluates(Trim(expr))
                 /\ ~safeEvalLocal(Trim(expr), angleMode, client).ok =>
                 /\ error' = Message(safeEvalLocal(Trim(expr), angleMode,
                                                   client).error)
                 /\ result' = NoText
                 /\ history' = history]_vars

\* with the switch off since the start, the evaluation of "2+" has failed
LocalFailed ==
    /\ ~useAI /\ fetches = 0
    /\ Trim(expr) = <<"2", "+">>
    /\ error # NoText /\ result = NoText

(***************************************************************************)
(* Properties of the evaluators, under SpecEval.                           *)
(***************************************************************************)
Arguments == [expr : Given, angleMode : {"RAD", "DEG"}]

\* the kind of failure evalStrict of the latest server ends in on g, by
\* the statement that throws first
FailureKind(g) ==
    IF ~ALLOWED(g.expr) THEN "DisallowedToken"
    ELSE With(StrictValue(g.expr, g.angleMode), LAMBDA v :
        IF v.k = "throw" /\ v.msg = "SyntaxError" THEN "ParseFailure"
        ELSE IF v.k = "throw" THEN "EvaluationError"
        ELSE IF v.k = "fn" THEN "IncompleteFunctionCall"
        ELSE IF v.k = "num" /\ v.f # "fin" THEN "NonFiniteResult"
        ELSE IF v.k = "num" THEN "None"
        ELSE "UnsupportedResultType")

\* C13: the error evalStrict throws tells the kind of the failure: two
\* failures of different kinds never carry the same message
FailuresDistinguished ==
    via = "part_001" /\ ~outcome.ok =>
        \A g \in Arguments :
            /\ ~evalStrict(g.expr, g.angleMode).ok
            /\ FailureKind(g) # FailureKind(given)
            => evalStrict(g.expr, g.angleMode).error # outcome.error

\* v is a function, or the string math.format makes of one
Callable(v) == v.k = "fn" \/ (v.k = "str" /\ v.of.k = "fn")

\* C14: no evaluator returns a function or the display string of a
\* function: an expression whose value is a function makes it throw
NoFunctionResult ==
    via # "" /\ outcome.ok => ~Callable(outcome.value)

\* C15: a number an evaluator returns is finite: it is neither NaN nor
\* Infinity nor -Infinity, rounded to 14 decimals or not
ResultIsFinite ==
    via # "" /\ outcome.ok /\ outcome.value.k = "num" =>
        outcome.value.f = "fin"

\* the number a, whether rounded or not, is the number b
SameNumber(a, b) ==
    /\ a.k = "num" /\ b.k = "num"
    /\ a.f = b.f /\ a.n = b.n /\ a.d = b.d /\ a.u = b.u

\* C16: every evaluator takes ln(x) to the natural logarithm of x: ln(e)
\* is 1 and ln(2.5) is the natural logarithm of 5/2
LnIsNatural ==
    /\ via # "" /\ given.expr = Spell("ln(e)") =>
           outcome.ok /\ SameNumber(outcome.value, Rat(1, 1))
    /\ via # "" /\ given.expr = Spell("ln(2.5)") =>
           outcome.ok /\ SameNumber(outcome.value, Ln(Rat(5, 2)))

\* C17: every evaluator takes log(x) to the logarithm of x in base 10 and
\* log(x, b) to the logarithm of x in base b: log(100) is 2, log(8, 2) is
\* 3 and log(100, 10) is 2
LogIsBase10 ==
    /\ via # "" /\ given.expr = Spell("log(100)") =>
           outcome.ok /\ SameNumber(outcome.value, Rat(2, 1))
    /\ via # "" /\ given.expr = Spell("log(8, 2)") =>
           outcome.ok /\ SameNumber(outcome.value, Rat(3, 1))
    /\ via # "" /\ given.expr = Spell("log(100, 10)") =>
           outcome.ok /\ SameNumber(outcome.value, Rat(2, 1))

\* C18: safeEvalLocal and evalStrict of the latest server agree on every
\* expression and angle mode: both throw, or both return the same value
LocalAgreesWithStrict ==
    via \in Clients =>
        With(evalStrict(given.expr, given.angleMode), LAMBDA strict :
            /\ outcome.ok = strict.ok
            /\ outcome.ok => outcome.value = strict.value)

\* the request inflight[i] is abandoned: a newer evaluation has sent its
\* own request since, or the input field has been cleared
Abandoned(i) == i < Len(inflight) \/ expr = <<>>

\* C19: the response to an abandoned request changes neither the result
\* displayed, nor the error displayed, nor the history
StaleResponseIgnored ==
    [][\A i \in DOMAIN inflight :
           /\ Abandoned(i)
           /\ \E data \in Answers(inflight[i]) : Respond(i, data)
           => UNCHANGED <<result, error, history>>]_vars

(***************************************************************************)
(* Properties of the route, under Spec.                                    *)
(***************************************************************************)
\* C20: the strict evaluator is applied to the text of the request, or to
\* the stripped text, only if that text passes isLikelyMath, hasOpOrFunc
\* and hasDigitOrConst
LocalPathsAreGated ==
    \A i \in DOMAIN evalCalls :
        evalCalls[i].from \in {"text", "stripped"} =>
            /\ isLikelyMath(evalCalls[i].arg)
            /\ hasOpOrFunc(evalCalls[i].arg)
            /\ hasDigitOrConst(evalCalls[i].arg)

(***************************************************************************)
(* More properties of the evaluators, under SpecEval.                      *)
(***************************************************************************)
\* C21: an evaluator of a server throws "Expression contains disallowed
\* tokens" for every expression that ALLOWED does not match
DisallowedIsRejected ==
    via \in {"part_001", "index"} /\ ~ALLOWED(given.expr) =>
        /\ ~outcome.ok
        /\ outcome.error = "Expression contains disallowed tokens"

\* C22: evalStrict returns the display string of a value that is a unit
\* quantity, and no evaluator returns the display string of a complex
\* number: a complex value makes it throw
NonNumberIsFormatted ==
    /\ /\ via = "part_001" /\ ALLOWED(given.expr)
       /\ StrictValue(given.expr, given.angleMode).k = "unit"
       => /\ outcome.ok
          /\ outcome.value = Format(StrictValue(given.expr, given.angleMode))
    /\ via # "" /\ outcome.ok /\ outcome.value.k = "str" =>
           outcome.value.of.k # "complex"

\* trigonometric calls whose argument is a number with a unit
UnitLiteralCalls == {Spell("sin(30 deg)"), Spell("sin(2 rad)")}

\* C23: the expression evalStrict parses for a trigonometric call on a
\* number with an explicit unit is the same in DEG mode as in RAD mode
UnitLiteralIgnoresMode ==
    via = "part_001" /\ given.expr \in UnitLiteralCalls =>
        Canonical(given.expr, "DEG") = Canonical(given.expr, "RAD")

\* C24: in DEG mode every evaluator takes the whole argument of a sin
\* call in degrees, with parentheses or a function call in it or not:
\* sin((0)+90) is the sine of 90 degrees, which is 1, and sin(sqrt(4)) is
\* the sine of 2 degrees, that is of pi / 90
WholeArgumentInDegrees ==
    /\ /\ via # "" /\ given.angleMode = "DEG"
       /\ given.expr = Spell("sin((0)+90)")
       => outcome.ok /\ SameNumber(outcome.value, Rat(1, 1))
    /\ /\ via # "" /\ given.angleMode = "DEG"
       /\ given.expr = Spell("sin(sqrt(4))")
       => /\ outcome.ok
          /\ SameNumber(outcome.value,
                        Trig("sin", Num(1, 90, <<"pi">>, FALSE)))

(***************************************************************************)
(* More properties of the route, under Spec.                               *)
(***************************************************************************)
\* the tokens of s from position i on: the runs of letters and digits, and
\* every other character that is not a space
RECURSIVE Tokens(_, _)
Tokens(s, i) ==
    IF i > Len(s) THEN <<>>
    ELSE IF s[i] \in Space THEN Tokens(s, i + 1)
    ELSE With(SpanIn(s, i, WordChar), LAMBDA n :
        IF n = 0 THEN <<(<<s[i]>>)>> \o Tokens(s, i + 1)
        ELSE <<SubSeq(s, i, i + n - 1)>> \o Tokens(s, i + n))

\* the words of the phrases tryStripEnglish deletes
FillerWords ==
    UNION {{w[j] : j \in DOMAIN w} :
              w \in {Tokens([j \in DOMAIN stripPhrases[k] |->
                                 IF stripPhrases[k][j] = WS THEN " "
                                 ELSE stripPhrases[k][j]], 1) :
                         k \in DOMAIN stripPhrases}}

IsFiller(tok) == [j \in DOMAIN tok |-> ToLower(tok[j])] \in FillerWords

\* the tokens of s that are not words of those phrases
Kept(s) == SelectSeq(Tokens(s, 1), LAMBDA tok : ~IsFiller(tok))

\* the stripped text the route computes from its text
Stripped ==
    IF server = "part_001" THEN tryStripEnglish(text)
    ELSE tryStripEnglishIx(text)

\* C25: tryStripEnglish deletes nothing but the lead-in phrases and adds
\* nothing: the other tokens of the stripped text are those of the text,
\* in the same order
StripKeepsTokens ==
    server \in {"index_a", "index_b", "part_001"} /\ pc # "idle" =>
        Kept(Stripped) = Kept(text)

HasCall(s) ==
    \E i \in 1..Len(s) :
        \E fn \in {<<"s","i","n">>, <<"c","o","s">>, <<"t","a","n">>,
                    <<"l","o","g","1","0">>, <<"l","o","g">>, <<"l","n">>,
                    <<"e","x","p">>, <<"s","q","r","t">>} :
            /\ MatchLen(s, i, fn, TRUE) = Len(fn)
            /\ With(i + Len(fn) + SpanIn(s, i + Len(fn), Space), LAMBDA open :
                    open <= Len(s) /\ s[open] = "(")

\* deg or rad occurs in s, in any casing
HasUnitWord(s) ==
    \E i \in 1..Len(s) :
        \/ MatchLen(s, i, <<"d","e","g">>, TRUE) = 3
        \/ MatchLen(s, i, <<"r","a","d">>, TRUE) = 3

\* evalStrict was applied to an expr of the strict grammar that has no
\* function call and no unit word
PlainGiven ==
    /\ via = "part_001"
    /\ ALLOWED(given.expr)
    /\ ~HasCall(given.expr)
    /\ ~HasUnitWord(given.expr)

\* C27: on an expression of the strict grammar with no function call and no
\* unit word the rewrites of evalStrict change nothing, in RAD and in DEG,
\* and applying them twice gives what applying them once gives
RewritesArePlainNoOp ==
    PlainGiven =>
        /\ Canonical(given.expr, given.angleMode) = given.expr
        /\ Canonical(Canonical(given.expr, given.angleMode), given.angleMode)
               = Canonical(given.expr, given.angleMode)

\* C27, as the code has it: on such an expression the rewrites do nothing
\* but the casing replaces of the constants, so they change nothing when
\* no letter of the expression is upper case, in RAD and in DEG; and
\* applying them twice gives what applying them once gives
RewritesOnlyLowerPlain ==
    PlainGiven =>
        /\ Canonical(given.expr, given.angleMode) = NormalizeCasing(given.expr)
        /\ (\A i \in DOMAIN given.expr : given.expr[i] \notin Upper)
               => Canonical(given.expr, given.angleMode) = given.expr
        /\ Canonical(Canonical(given.expr, given.angleMode), given.angleMode)
               = Canonical(given.expr, given.angleMode)

\* evalStrict evaluated, in DEG mode, an expression of several tokens that
\* has upper case in it
PlainRewritten ==
    /\ PlainGiven
    /\ given.angleMode = "DEG"
    /\ Len(given.expr) > 1
    /\ \E i \in DOMAIN given.expr : given.expr[i] \in Upper
    /\ Canonical(given.expr, given.angleMode) # given.expr
    /\ outcome.ok

\* ---------------------------------------------------------------------------
\* The display of the client, under SpecClient
\* ---------------------------------------------------------------------------

\* C28: result and error are never both set, whatever the number of
\* evaluations awaiting the server and the order of their responses
ResultOrError == ~(result # NoText /\ error # NoText)

\* C29: when the evaluations awaiting the server have all been answered,
\* result and error are those of the evaluation started last: the response
\* that arrives last, if it is that of an evaluation started before another
\* one, changes neither result nor error
LatestStartedIsShown ==
    [][\A i \in DOMAIN inflight :
           /\ inflight[i].n < fetches
           /\ Len(inflight) = 1
           /\ \E data \in Answers(inflight[i]) : Respond(i, data)
           => UNCHANGED <<result, error>>]_vars

\* ---------------------------------------------------------------------------
\* The strict grammar and the gate of the route, under Spec
\* ---------------------------------------------------------------------------

\* C30: a text that ALLOWED accepts and that has an operator or function
\* and a digit or constant passes isLikelyMath, hasOpOrFunc and
\* hasDigitOrConst, is not natural language for isNaturalLanguage, and is
\* handled by the latest route without a call to the service
StrictIsLocal ==
    /\ server = "part_001"
    /\ pc # "idle"
    /\ ALLOWED(text)
    /\ hasOpOrFunc(text)
    /\ hasDigitOrConst(text)
    => /\ FullGate(text)
       /\ ~isNaturalLanguage(text)
       /\ calls = 0

=============================================================================
